---- MODULE Spec2Model ----
(***************************************************************************)
(* Model of the backup orchestrator of milvus-backup:                      *)
(*   core/backup_impl_create_backup.go  (CreateBackup, parse, prepare,     *)
(*                                       execute, copy, manifest write)    *)
(*   core/backup_context.go             (BackupContext, mutex, pools)      *)
(* MetaManager, the worker pool, the retry helper and the object store are *)
(* not part of the sources at hand; they are modelled from the             *)
(* specification (sections 4.A, 4.C, 4.D).                                 *)
(***************************************************************************)
EXTENDS Integers, Sequences, FiniteSets, TLC

VARIABLES
    pc,         \* per CreateBackup call: position in CreateBackup / executeCreateBackup
    req,        \* per call: the CreateBackupRequest
    resp,       \* per call: the BackupInfoResponse returned to the caller
    mu,         \* BackupContext.mu: 0 when free, else the call holding it
    meta,       \* BackupContext.meta (MetaManager)
    store,      \* objects of the backup bucket (set of paths)
    exec,       \* locals of the executeCreateBackup invocation holding mu
    copyJobs,   \* copySegment jobs submitted to the copy pool, not yet run
    faults,     \* number of environment failures and cancellations so far
    pin,        \* inputs of one backupCollectionPrepare invocation
    pout,       \* outcome of that invocation
    ctxDone,    \* calls whose caller has cancelled the context it passed
    mgmt,       \* the last GetBackup / DeleteBackup / GetRestore call and its response
    paths,      \* one copySegment seen as a computation on path strings
    env,        \* what the environment has answered so far
    pools       \* the worker pools of the engine and the jobs of one backup on them

vars == <<pc, req, resp, mu, meta, store, exec, copyJobs, faults, pin, pout, ctxDone, mgmt,
          paths, env, pools>>

----------------------------------------------------------------------------
(* Bounds of the model *)

NumCalls == 2         \* CreateBackup calls issued against one engine
MaxFaults == 1        \* environment failures and cancellations in one behaviour
MaxSnapshotLen == 2   \* length of a persistent-segment snapshot

Calls == 1..NumCalls

----------------------------------------------------------------------------
(* Generic helpers *)

Put(f, k, v) == [x \in DOMAIN f \cup {k} |-> IF x = k THEN v ELSE f[x]]

Merge(r, u) == [k \in DOMAIN r |-> IF k \in DOMAIN u THEN u[k] ELSE r[k]]

Range(s) == {s[i] : i \in DOMAIN s}

RECURSIVE SumSeq(_)
SumSeq(s) == IF s = <<>> THEN 0 ELSE Head(s) + SumSeq(Tail(s))

RECURSIVE Concat(_)
Concat(ss) == IF ss = <<>> THEN <<>> ELSE Head(ss) \o Concat(Tail(ss))

IsPrefix(p, s) == Len(p) <= Len(s) /\ SubSeq(s, 1, Len(p)) = p

\* strings.Replace(s, old, new, 1) on a sequence
FirstIndex(s, old) ==
    LET hits == {i \in 1..(Len(s) - Len(old) + 1) : SubSeq(s, i, i + Len(old) - 1) = old}
    IN IF hits = {} THEN 0 ELSE CHOOSE i \in hits : \A j \in hits : i <= j

ReplaceFirst(s, old, new) ==
    LET i == FirstIndex(s, old)
    IN IF i = 0 THEN s
       ELSE SubSeq(s, 1, i - 1) \o new \o SubSeq(s, i + Len(old), Len(s))

----------------------------------------------------------------------------
(* Response codes and task states (backuppb) *)

Success == "Success"
Fail == "Fail"
Parameter_Error == "Parameter_Error"
Request_Object_Not_Found == "Request_Object_Not_Found"

BACKUP_INITIAL == "Initial"
BACKUP_SUCCESS == "Success"
BACKUP_FAIL == "Fail"

----------------------------------------------------------------------------
(* MetaManager: a store of entities keyed by id.  Add* upserts an entity,  *)
(* Update* replaces the stored entity by an updated copy, Get* returns the *)
(* stored entity.                                                          *)

newMetaManager ==
    [backups |-> <<>>,       \* backup id -> BackupInfo
     collections |-> <<>>,   \* <<backup id, collection id>> -> CollectionBackupInfo
     partitions |-> <<>>,    \* <<collection id, partition id>> -> PartitionBackupInfo
     segments |-> <<>>,      \* segment id -> SegmentBackupInfo
     collectionBackupReverse |-> <<>>,   \* collection id -> backup id
     restoreTasks |-> <<>>]   \* restore id -> RestoreBackupTask

AddBackup(m, b) == [m EXCEPT !.backups = Put(@, b.id, b)]

UpdateBackup(m, id, opts) == [m EXCEPT !.backups[id] = Merge(@, opts)]

GetBackup(m, id) == m.backups[id]

GetBackupByName(m, name) == {id \in DOMAIN m.backups : m.backups[id].name = name}

AddCollection(m, c) ==
    [m EXCEPT !.collections = Put(@, <<c.id, c.collectionId>>, c),
              !.collectionBackupReverse = Put(@, c.collectionId, c.id)]

UpdateCollection(m, id, collId, opts) ==
    [m EXCEPT !.collections[<<id, collId>>] = Merge(@, opts)]

GetCollections(m, id) == {k[2] : k \in {x \in DOMAIN m.collections : x[1] = id}}

AddPartition(m, p) == [m EXCEPT !.partitions = Put(@, <<p.collectionId, p.partitionId>>, p)]

GetPartitions(m, collId) == {k[2] : k \in {x \in DOMAIN m.partitions : x[1] = collId}}

AddSegment(m, s) == [m EXCEPT !.segments = Put(@, s.segmentId, s)]

UpdateSegment(m, partId, segId, opts) == [m EXCEPT !.segments[segId] = Merge(@, opts)]

GetSegments(m, partId) == {s \in DOMAIN m.segments : m.segments[s].partitionId = partId}

GetSegment(m, segId) == m.segments[segId]

AddRestoreTask(m, task) == [m EXCEPT !.restoreTasks = Put(@, task.id, task)]

\* reverse lookup segment -> collection -> backup
GetBackupBySegmentID(m, segId) ==
    m.backups[m.collectionBackupReverse[m.segments[segId].collectionId]]

----------------------------------------------------------------------------
(* backupCollectionPrepare.  `in` holds what the VectorDB capability       *)
(* returns to this invocation:                                             *)
(*   failAt      the external call that returns an error ("" for none)     *)
(*   coll        DescribeCollection: [id, db, name]                        *)
(*   partitions  ShowPartitions: set of partition ids                      *)
(*   progress    GetLoadingProgress of the collection                      *)
(*   partProgress GetLoadingProgress per partition                         *)
(*   before, after  GetPersistentSegmentInfo: sequences of [id, part]      *)
(*   newSealed, flushed, cps, timeOfSeal   FlushV2                         *)

LoadState_NotLoad == "NotLoad"
LoadState_Loading == "Loading"
LoadState_Loaded == "Loaded"

LoadStateOf(progress) ==
    IF progress = 0 THEN LoadState_NotLoad
    ELSE IF progress = 100 THEN LoadState_Loaded
    ELSE LoadState_Loading

Max(S) == CHOOSE x \in S : \A y \in S : y <= x

\* lines 373-380: maxChannelBackupTimeStamp over the returned checkpoints
MaxChannelBackupTimeStamp(cps) ==
    IF DOMAIN cps = {} THEN 0 ELSE Max({cps[v].ts : v \in DOMAIN cps})

\* lines 413-430: one pass over a snapshot, taking the segments whose id is
\* still in segmentDict and deleting the id from it
RECURSIVE TakeFlushed(_, _, _)
TakeFlushed(snapshot, segmentDict, taken) ==
    IF snapshot = <<>> THEN [dict |-> segmentDict, taken |-> taken]
    ELSE LET seg == Head(snapshot)
         IN IF seg.id \in segmentDict
            THEN TakeFlushed(Tail(snapshot), segmentDict \ {seg.id}, Append(taken, seg))
            ELSE TakeFlushed(Tail(snapshot), segmentDict, taken)

\* a prepare that flushes whatever the request says
FlushBranch_Always(force) == TRUE

\* line 351: the flush branch is taken unless the backup is forced
FlushBranch(force) == ~force

\* a selection that takes every segment of both snapshots, whatever the
\* flush returned
UnfilledSegments_Unfiltered(in, force) ==
    IF FlushBranch(force) THEN in.after \o in.before ELSE in.before

\* lines 350-450: the segments to back up
UnfilledSegments(in, force) ==
    IF FlushBranch(force)
    THEN LET flushSegmentIDs == in.newSealed \o in.flushed
             a == TakeFlushed(in.after, Range(flushSegmentIDs), <<>>)
             b == TakeFlushed(in.before, a.dict, a.taken)
         IN b.taken
    ELSE in.before

\* lines 462-474: partSegInfoMap[partition] = ids of its segments, in order
PartSegInfoMap(unfilled, partId) ==
    LET InPart(seg) == seg.part = partId
        segs == SelectSeq(unfilled, InPart)
    IN [i \in 1..Len(segs) |-> segs[i].id]

NewSegmentBackupInfo(seg, collId) ==
    [segmentId |-> seg.id, collectionId |-> collId, partitionId |-> seg.part,
     binlogs |-> <<>>, deltalogs |-> <<>>, size |-> 0, groupId |-> 0,
     backuped |-> FALSE]

RECURSIVE AddSegments(_, _, _)
AddSegments(m, unfilled, collId) ==
    IF unfilled = <<>> THEN m
    ELSE AddSegments(AddSegment(m, NewSegmentBackupInfo(Head(unfilled), collId)),
                     Tail(unfilled), collId)

\* a PartitionBackupInfo that keeps the segments an earlier run listed under
\* the partition and lists the new ones after them
NewPartitionBackupInfo_Accumulate(m, in, unfilled, partId) ==
    LET partitionSegments == PartSegInfoMap(unfilled, partId)
        key == <<in.coll.id, partId>>
        earlier == IF key \in DOMAIN m.partitions THEN m.partitions[key].segmentBackups
                   ELSE <<>>
    IN [partitionId |-> partId, collectionId |-> in.coll.id,
        segmentBackups |-> earlier \o partitionSegments,
        size |-> 0,
        loadState |-> IF in.progress = 0 \/ in.progress = 100
                      THEN LoadStateOf(in.progress)
                      ELSE LoadStateOf(in.partProgress[partId])]

\* lines 476-493: one PartitionBackupInfo per shown partition; its size is
\* the sum of the sizes of the SegmentBackupInfo just created
NewPartitionBackupInfo(m, in, unfilled, partId) ==
    LET partitionSegments == PartSegInfoMap(unfilled, partId)
    IN [partitionId |-> partId, collectionId |-> in.coll.id,
        segmentBackups |-> partitionSegments,
        size |-> SumSeq([i \in 1..Len(partitionSegments) |->
                            NewSegmentBackupInfo([id |-> partitionSegments[i], part |-> partId],
                                                 in.coll.id).size]),
        loadState |-> IF in.progress = 0 \/ in.progress = 100
                      THEN LoadStateOf(in.progress)
                      ELSE LoadStateOf(in.partProgress[partId])]

AddPartitions(m, in, unfilled) ==
    LET old == m.partitions
        new == {<<in.coll.id, p>> : p \in in.partitions}
    IN [m EXCEPT !.partitions =
            [k \in DOMAIN old \cup new |->
                IF k \in new THEN NewPartitionBackupInfo(m, in, unfilled, k[2]) ELSE old[k]]]

PrepareFailsBefore(in, stage) ==
    CASE stage = "AddCollection" -> in.failAt \in {"DescribeCollection", "DescribeIndex"}
      [] stage = "segments" -> in.failAt \in {"ShowPartitions", "GetLoadingProgress"}
      [] stage = "flush" -> in.failAt \in {"GetPersistentSegmentInfo", "FlushV2"}
      [] stage = "after" -> in.failAt = "GetPersistentSegmentInfoAfter"

backupCollectionPrepare(m, backupId, in, force) ==
    LET collectionBackup ==
            [id |-> backupId, collectionId |-> in.coll.id, dbName |-> in.coll.db,
             collectionName |-> in.coll.name, stateCode |-> BACKUP_INITIAL,
             channelCheckpoints |-> <<>>, backupTimestamp |-> 0,
             backupPhysicalTimestamp |-> 0, loadState |-> "", size |-> 0,
             endTime |-> 0]
        m1 == AddCollection(m, collectionBackup)
        channelCheckpoints == [v \in DOMAIN in.cps |-> in.cps[v].pos]
        m2 == UpdateCollection(m1, backupId, in.coll.id,
                  [channelCheckpoints |-> channelCheckpoints,
                   backupTimestamp |-> MaxChannelBackupTimeStamp(in.cps),
                   backupPhysicalTimestamp |-> in.timeOfSeal])
        unfilled == UnfilledSegments(in, force)
        m3 == AddSegments(IF FlushBranch(force) THEN m2 ELSE m1, unfilled, in.coll.id)
        m4 == AddPartitions(m3, in, unfilled)
        m5 == UpdateCollection(m4, backupId, in.coll.id,
                  [loadState |-> LoadStateOf(in.progress)])
        \* lines 504-509: partitionBackupInfos is never appended to
        partitionBackupInfos == <<>>
        m6 == UpdateCollection(m5, backupId, in.coll.id,
                  [size |-> SumSeq(partitionBackupInfos)])
    IN IF PrepareFailsBefore(in, "AddCollection")
       THEN [meta |-> m, err |-> in.failAt, flushed |-> FALSE]
       ELSE IF PrepareFailsBefore(in, "segments")
       THEN [meta |-> m1, err |-> in.failAt, flushed |-> FALSE]
       ELSE IF ~FlushBranch(force)
       THEN IF in.failAt = "GetPersistentSegmentInfo"
            THEN [meta |-> m1, err |-> in.failAt, flushed |-> FALSE]
            ELSE [meta |-> m6, err |-> "", flushed |-> FALSE]
       ELSE IF PrepareFailsBefore(in, "flush")
       THEN [meta |-> m1, err |-> in.failAt, flushed |-> in.failAt = "FlushV2"]
       ELSE IF PrepareFailsBefore(in, "after")
       THEN [meta |-> m2, err |-> in.failAt, flushed |-> TRUE]
       ELSE [meta |-> m6, err |-> "", flushed |-> TRUE]

----------------------------------------------------------------------------
(* Specification SpecPrepare: one invocation of backupCollectionPrepare on *)
(* every combination of VectorDB answers within the bounds.                *)

TheCollection == [id |-> 1, db |-> "default", name |-> "c1"]

PartitionIds == {10, 20}

\* segment entities the cluster may report; segment 3 lives in partition 20
SegmentEntities == {[id |-> 1, part |-> 10], [id |-> 2, part |-> 10], [id |-> 3, part |-> 20]}

RECURSIVE SeqsUpTo(_, _)
SeqsUpTo(S, n) ==
    IF n = 0 THEN {<<>>}
    ELSE LET shorter == SeqsUpTo(S, n - 1)
         IN shorter \cup {Append(q, x) : q \in shorter, x \in S}

Snapshots == SeqsUpTo(SegmentEntities, MaxSnapshotLen)

\* FlushV2 answers: newly sealed and already flushed ids; id 4 is in no snapshot
FlushAnswers ==
    {[newSealed |-> <<>>, flushed |-> <<>>],
     [newSealed |-> <<1>>, flushed |-> <<>>],
     [newSealed |-> <<1>>, flushed |-> <<2>>],
     [newSealed |-> <<2, 3>>, flushed |-> <<1>>],
     [newSealed |-> <<3>>, flushed |-> <<4>>]}

\* FlushV2 returns one checkpoint per virtual channel of the collection
ChannelCPs ==
    {[v \in {"by-dev-dml_0_1v0"} |-> [pos |-> "p0", ts |-> 5]],
     [v \in {"by-dev-dml_0_1v0", "by-dev-dml_1_1v1"} |->
         IF v = "by-dev-dml_0_1v0" THEN [pos |-> "p0", ts |-> 5] ELSE [pos |-> "p1", ts |-> 7]]}

SnapshotBefore == <<[id |-> 1, part |-> 10], [id |-> 2, part |-> 10]>>

SnapshotAfter == <<[id |-> 1, part |-> 10], [id |-> 3, part |-> 20]>>

PrepareFailures ==
    {"DescribeCollection", "DescribeIndex", "ShowPartitions", "GetLoadingProgress",
     "GetPersistentSegmentInfo", "FlushV2", "GetPersistentSegmentInfoAfter"}

PrepareInput(failAt, partitions, progress, before, after, fl, cps) ==
    [failAt |-> failAt, coll |-> TheCollection, partitions |-> partitions,
     progress |-> progress, partProgress |-> [p \in PartitionIds |-> IF p = 10 THEN 100 ELSE 30],
     before |-> before, after |-> after,
     newSealed |-> fl.newSealed, flushed |-> fl.flushed, cps |-> cps, timeOfSeal |-> 3]

\* the answers tried: every pair of snapshots with every flush answer, the
\* loading progresses and checkpoint maps on one pair of snapshots, and each
\* failing call
PrepareInputs ==
    {PrepareInput("", ps, 0, b, a, fl, CHOOSE cps \in ChannelCPs : Cardinality(DOMAIN cps) = 1) :
        ps \in {{10}, {10, 20}}, b \in Snapshots, a \in Snapshots, fl \in FlushAnswers}
    \cup
    {PrepareInput("", {10, 20}, pr, SnapshotBefore, SnapshotAfter,
                  [newSealed |-> <<2, 3>>, flushed |-> <<1>>], cps) :
        pr \in {0, 50, 100}, cps \in ChannelCPs}
    \cup
    {PrepareInput(f, {10, 20}, 100, SnapshotBefore, SnapshotAfter,
                  [newSealed |-> <<2, 3>>, flushed |-> <<1>>], cps) :
        f \in PrepareFailures, cps \in ChannelCPs}

IdleInput == PrepareInput("", {}, 0, <<>>, <<>>, [newSealed |-> <<>>, flushed |-> <<>>], <<>>)

\* attempts: the invocations the retry loop has made; okAt: the invocation
\* that returned nil, 0 while none has
IdleOutcome ==
    [stage |-> "idle", err |-> "", flushed |-> FALSE, force |-> FALSE, attempts |-> 0,
     okAt |-> 0]

IdleExec ==
    [toBackup |-> <<>>, next |-> 1, err |-> "", colls |-> {}, coll |-> 0,
     order |-> <<>>, results |-> <<>>]

NoRequest ==
    [name |-> "", async |-> FALSE, force |-> FALSE, metaOnly |-> FALSE, gcPauseEnable |-> FALSE,
     collectionNames |-> <<>>, dbCollections |-> [str |-> "", map |-> <<>>]]

NoResponse == [code |-> "", msg |-> "", state |-> "", errorMessage |-> ""]

\* no GetBackup, DeleteBackup or GetRestore call has been made.  op: the
\* entry point; id, name: its request; code, msg, found (Data is not nil),
\* progress: its response; panics: the call ended in a run-time panic;
\* removes: RemoveWithPrefix invocations of the call, removeFailed: the
\* removal returned an error; deleted: names whose finished Success backup
\* a DeleteBackup has answered Success for; data: the names of the backups
\* a ListBackups returned, in order
NoManagement ==
    [op |-> "", id |-> 0, name |-> "", code |-> "", msg |-> "", found |-> FALSE,
     progress |-> 0, panics |-> FALSE, removes |-> 0, removeFailed |-> FALSE,
     deleted |-> {}, data |-> <<>>]

\* no pool has been created and no job is looked at
NoPools ==
    [field |-> 0, created |-> 0, job |-> <<>>, queue |-> <<>>, running |-> <<>>,
     finished |-> {}, jobIds |-> <<>>, completed |-> {}, returned |-> FALSE]

\* the environment has answered nothing.  missing: the copySegment jobs an
\* existence check has told that the source object is absent; emptyListing:
\* the segments whose insert_log listing came back empty, per call, with the
\* segment as MetaManager held it at that moment; listFailed: the listing
\* calls of fillSegmentBackupInfo that returned an error, per call and segment
\* copyTried: the copies the object store failed, per copySegment job, with
\* the attempts made, what the job returned and the segment's backuped flag
\* before and after the job
\* cfgGcPause: backup.gcPause.enable of the configuration; gc: the pause and
\* resume calls issued to the cluster, in order, each with the call it was
\* issued for, whether the HTTP call failed and whether the mutex was held
NoEnv ==
    [missing |-> {}, emptyListing |-> {}, listFailed |-> {}, copyTried |-> {},
     cfgGcPause |-> FALSE, gc |-> <<>>]

\* no copySegment is looked at as a computation on strings
\* and no channel checkpoint file: cps are the channel checkpoints of a
\* collection (virtual channel name and position), cpFile the entries of
\* the collection in the file, written tells whether the file was built
NoPaths ==
    [rootPath |-> <<>>, backupRootPath |-> <<>>, name |-> <<>>, collId |-> 0, partId |-> 0,
     segId |-> 0, binlogs |-> <<>>, next |-> 1, groupId |-> 0, copies |-> <<>>, err |-> "",
     cps |-> <<>>, cpFile |-> <<>>, written |-> FALSE]

InitPrepare ==
    /\ pc = [c \in Calls |-> "idle"]
    /\ req = [c \in Calls |-> NoRequest]
    /\ resp = [c \in Calls |-> NoResponse]
    /\ mu = 0
    /\ meta = newMetaManager
    /\ store = {}
    /\ exec = IdleExec
    /\ copyJobs = {}
    /\ faults = 0
    /\ ctxDone = {}
    /\ mgmt = NoManagement
    /\ pools = NoPools
    /\ env = NoEnv
    /\ paths = NoPaths
    /\ pin \in PrepareInputs
    /\ pout \in {[IdleOutcome EXCEPT !.stage = "init", !.force = f] : f \in BOOLEAN}

PrepareOnce ==
    /\ pout.stage = "init"
    /\ LET r == backupCollectionPrepare(meta, 1, pin, pout.force)
       IN /\ meta' = r.meta
          /\ pout' = [pout EXCEPT !.stage = "done", !.err = r.err, !.flushed = r.flushed]
    /\ UNCHANGED <<pc, req, resp, mu, store, exec, copyJobs, faults, pin, ctxDone, mgmt, paths, env, pools>>

NextPrepare == PrepareOnce

SpecPrepare == InitPrepare /\ [][NextPrepare]_vars

PreparedOk == pout.stage = "done" /\ pout.err = ""

\* the segments PartitionBackupInfo p of the prepared collection lists
ListedUnder(p) == meta.partitions[<<TheCollection.id, p>>].segmentBackups

Occurrences(seq, x) == Cardinality({i \in DOMAIN seq : seq[i] = x})

\* C8: after a successful prepare every segment added to MetaManager is
\* listed exactly once, under exactly one registered partition of the collection
C8_SegmentListedOnce ==
    PreparedOk =>
        \A s \in DOMAIN meta.segments :
            /\ Cardinality({p \in GetPartitions(meta, TheCollection.id) :
                               Occurrences(ListedUnder(p), s) > 0}) = 1
            /\ \A p \in GetPartitions(meta, TheCollection.id) :
                   Occurrences(ListedUnder(p), s) <= 1

\* the ids FlushV2 returned: newly sealed and already flushed
FlushedIds == Range(pin.newSealed) \cup Range(pin.flushed)

\* how often segment s is listed by the partitions of the prepared collection
TimesListed(s) ==
    Cardinality({pi \in UNION {{<<p, i>> : i \in DOMAIN ListedUnder(p)} :
                                  p \in GetPartitions(meta, TheCollection.id)} :
                    ListedUnder(pi[1])[pi[2]] = s})

\* C29: with force=false the segments prepare records for the collection are
\* exactly the segments of the before-flush or after-flush snapshot whose id
\* FlushV2 returned as newly sealed or already flushed, each id once; ids
\* FlushV2 returned that are in neither snapshot add no segment and do not
\* make prepare fail
C29_UnfilledSet ==
    (pout.stage = "done" /\ ~pout.force /\ pin.failAt = "") =>
        /\ pout.err = ""
        /\ DOMAIN meta.segments =
              {s.id : s \in {x \in Range(pin.before) \cup Range(pin.after) :
                                x.id \in FlushedIds}}
        /\ \A s \in DOMAIN meta.segments :
              /\ \E x \in Range(pin.before) \cup Range(pin.after) :
                    /\ x.id = s
                    /\ meta.segments[s].partitionId = x.part
              /\ TimesListed(s) <= 1
              /\ meta.segments[s].partitionId \in pin.partitions => TimesListed(s) = 1

C29_Witness ==
    /\ PreparedOk /\ ~pout.force
    /\ 4 \in FlushedIds
    /\ \E x \in Range(pin.before) \cap Range(pin.after) :
          x.id \in DOMAIN meta.segments /\ TimesListed(x.id) = 1
    /\ \E x \in Range(pin.before) : x.id \notin FlushedIds

PreparedCollection == meta.collections[<<1, TheCollection.id>>]

----------------------------------------------------------------------------
(* Specification SpecPrepareRetry: backupCollectionPrepare invoked a       *)
(* second time for the same backup and collection, as the retry loop of    *)
(* lines 633-642 does after an invocation that returned an error.  The     *)
(* cluster answers the second invocation as it answered the first, the     *)
(* call that failed either failing again or answering.                     *)

PrepareAgain ==
    /\ pout.stage = "done"
    /\ \E failAt \in {"", pin.failAt} :
        LET r == backupCollectionPrepare(meta, 1, [pin EXCEPT !.failAt = failAt], pout.force)
        IN /\ meta' = r.meta
           /\ pout' = [pout EXCEPT !.stage = "again", !.err = r.err, !.flushed = r.flushed]
    /\ UNCHANGED <<pc, req, resp, mu, store, exec, copyJobs, faults, pin, ctxDone, mgmt, paths, env, pools>>

NextPrepareRetry ==
    \/ PrepareOnce
    \/ PrepareAgain

SpecPrepareRetry == InitPrepare /\ [][NextPrepareRetry]_vars

\* what one invocation that meets no failure leaves in a fresh MetaManager
PreparedOnce ==
    backupCollectionPrepare(newMetaManager, 1, [pin EXCEPT !.failAt = ""], pout.force).meta

\* C22: a second backupCollectionPrepare for the same backup and collection
\* on the same answers leaves MetaManager as one invocation does: one
\* collection entry, the same partitions and the same segments, each once
C22_PrepareIdempotent ==
    (pout.stage = "again" /\ pout.err = "") =>
        /\ meta = PreparedOnce
        /\ DOMAIN meta.collections = {<<1, TheCollection.id>>}
        /\ GetPartitions(meta, TheCollection.id) = pin.partitions
        /\ DOMAIN meta.segments = {seg.id : seg \in Range(UnfilledSegments(pin, pout.force))}
        /\ \A p \in pin.partitions :
              ListedUnder(p) = PartSegInfoMap(UnfilledSegments(pin, pout.force), p)

C22_Witness ==
    /\ pout.stage = "again" /\ pout.err = ""
    /\ pin.failAt = "GetPersistentSegmentInfoAfter"
    /\ ~pout.force
    /\ Cardinality(DOMAIN meta.segments) >= 2
    /\ meta = PreparedOnce

----------------------------------------------------------------------------
(* Specification SpecPrepareBudget: the prepare job of one collection,     *)
(* lines 632-645: retry.Do invokes backupCollectionPrepare until an        *)
(* invocation returns nil or the attempts are used up.  Each invocation    *)
(* either meets the failing call of pin or meets no failure.               *)

\* line 644: retry.Attempts(128)
PrepareAttempts == 128

\* a retry loop that grants one invocation more
PrepareRetries_OneMore(tried) == tried < PrepareAttempts + 1

\* lines 633-644: the loop of retry.Do goes on while attempts are left
PrepareRetries(tried) == tried < PrepareAttempts

InitPrepareBudget ==
    /\ InitPrepare
    /\ pin.failAt # ""

PrepareAttempt ==
    /\ pout.stage \in {"init", "retry"}
    /\ PrepareRetries(pout.attempts)
    /\ \E failAt \in {"", pin.failAt} :
        LET r == backupCollectionPrepare(meta, 1, [pin EXCEPT !.failAt = failAt], pout.force)
            tried == pout.attempts + 1
        IN /\ meta' = r.meta
           /\ pout' = [pout EXCEPT !.attempts = tried,
                                   !.err = r.err,
                                   !.flushed = r.flushed,
                                   !.okAt = IF r.err = "" THEN tried ELSE @,
                                   !.stage = IF r.err = "" THEN "done"
                                             ELSE IF PrepareRetries(tried) THEN "retry"
                                             ELSE "failed"]
    /\ UNCHANGED <<pc, req, resp, mu, store, exec, copyJobs, faults, pin, ctxDone, mgmt, paths,
                   env, pools>>

NextPrepareBudget == PrepareAttempt

SpecPrepareBudget == InitPrepareBudget /\ [][NextPrepareBudget]_vars

\* the pool runs the job and every call of an invocation returns
LiveSpecPrepareBudget == SpecPrepareBudget /\ WF_vars(PrepareAttempt)

\* C34: backupCollectionPrepare is invoked at most 128 times for a
\* collection; the prepare job succeeds as soon as one invocation succeeds
\* and fails only after 128 failed invocations, so the job always ends
C34_PrepareBudget ==
    /\ [](/\ pout.attempts <= 128
          /\ pout.stage = "done" => (pout.okAt = pout.attempts /\ pout.err = "")
          /\ pout.stage = "failed" =>
                (pout.attempts = 128 /\ pout.okAt = 0 /\ pout.err # "")
          /\ pout.stage \in {"init", "retry"} => (pout.attempts < 128 /\ pout.okAt = 0))
    /\ [][pout.stage \in {"done", "failed"} => pout' = pout]_vars
    /\ <>(pout.stage \in {"done", "failed"})

C34_Witness ==
    /\ pout.stage = "failed"
    /\ pout.attempts = 128

----------------------------------------------------------------------------
(* The source cluster of specification Spec: database "default" holding    *)
(* collection c1 with partition 10 and two sealed segments.                *)

MilvusRoot == "files"     \* params.MinioCfg.RootPath
BackupRoot == "backup"    \* params.MinioCfg.BackupRootPath
SEPERATOR == "/"

ListDatabases == <<"default">>

ListCollections(db) == IF db = "default" THEN <<"c1">> ELSE <<>>

HasCollection(db, name) == name \in Range(ListCollections(db))

ClusterSegments == <<[id |-> 1, part |-> 10], [id |-> 2, part |-> 10]>>

\* strconv.FormatInt(id, 10) for the ids of the cluster
FormatInt(n) ==
    CASE n = 0 -> "0" [] n = 1 -> "1" [] n = 2 -> "2" [] n = 3 -> "3"
      [] n = 10 -> "10" [] n = 20 -> "20" [] n = 100 -> "100" [] n = 101 -> "101"

\* objects of the milvus bucket below {kind}/{coll}/{part}/{seg}/: per field
\* directory the files and their sizes, in listing order
SourceLogs(kind, segId) ==
    CASE kind = "insert_log" /\ segId = 1 ->
            <<[fieldId |-> 100, files |-> <<[file |-> "b1", size |-> 10]>>]>>
      [] kind = "insert_log" /\ segId = 2 ->
            <<[fieldId |-> 100, files |-> <<[file |-> "b1", size |-> 20]>>]>>
      [] kind = "delta_log" /\ segId = 2 ->
            <<[fieldId |-> 101, files |-> <<[file |-> "d1", size |-> 5]>>]>>
      [] OTHER -> <<>>

\* what backupCollectionPrepare is answered on this cluster
ClusterPrepareInput(failAt) ==
    [failAt |-> failAt, coll |-> TheCollection, partitions |-> {10},
     progress |-> 100, partProgress |-> [p \in PartitionIds |-> 100],
     before |-> ClusterSegments, after |-> ClusterSegments,
     newSealed |-> <<>>, flushed |-> <<1, 2>>,
     cps |-> [v \in {"by-dev-dml_0_1v0"} |-> [pos |-> "p0", ts |-> 5]],
     timeOfSeal |-> 3]

----------------------------------------------------------------------------
(* Paths: sequences of path components *)

BackupDirPath(root, name) == <<root, name>>

BackupMetaDirPath(root, name) == <<root, name, "meta">>

BackupBinlogDirPath(root, name) == <<root, name, "binlogs">>

ManifestFiles ==
    <<"backup_meta.json", "collection_meta.json", "partition_meta.json",
      "segment_meta.json", "full_meta.json", "channel_cp_meta.json">>

ManifestPath(root, name, file) == BackupMetaDirPath(root, name) \o <<file>>

\* storage Exist on a path: an object at the path or below it
Exist(objects, path) == \E o \in objects : IsPrefix(path, o)

----------------------------------------------------------------------------
(* fillSegmentBackupInfo, lines 877-970.  listFault names the listing call *)
(* that returns an error: "" none, "insert" the segment's insert_log path, *)
(* "field" the field sub-directories, "delta" the delta_log path.          *)

SegmentLogPath(kind, seg) ==
    <<MilvusRoot, kind, FormatInt(seg.collectionId), FormatInt(seg.partitionId),
      FormatInt(seg.segmentId)>>

FieldBinlogs(kind, seg, listed, fieldListFails) ==
    [i \in 1..Len(listed) |->
        [fieldId |-> listed[i].fieldId,
         binlogs |-> IF fieldListFails THEN <<>>
                     ELSE [j \in 1..Len(listed[i].files) |->
                             [logPath |-> SegmentLogPath(kind, seg)
                                            \o <<FormatInt(listed[i].fieldId), listed[i].files[j].file>>,
                              logSize |-> listed[i].files[j].size]]]]

BinlogsSize(fieldBinlogs) ==
    SumSeq([i \in 1..Len(fieldBinlogs) |->
               SumSeq([j \in 1..Len(fieldBinlogs[i].binlogs) |->
                          fieldBinlogs[i].binlogs[j].logSize])])

\* a fill that takes an empty insert_log listing for a segment without
\* insert logs
fillSegmentBackupInfo_Tolerant(m, segId, listFault) ==
    LET seg == GetSegment(m, segId)
        fieldsLogDir == IF listFault = "insert" THEN <<>> ELSE SourceLogs("insert_log", segId)
        insertLogs == FieldBinlogs("insert_log", seg, fieldsLogDir, FALSE)
        deltaLogs == <<[fieldId |-> 0, binlogs |-> <<>>]>>
    IN [meta |-> UpdateSegment(m, seg.partitionId, segId,
                    [binlogs |-> insertLogs, deltalogs |-> deltaLogs,
                     size |-> BinlogsSize(insertLogs)]),
        err |-> ""]

fillSegmentBackupInfo(m, segId, listFault) ==
    LET seg == GetSegment(m, segId)
        fieldsLogDir == IF listFault = "insert" THEN <<>> ELSE SourceLogs("insert_log", segId)
        insertLogs == FieldBinlogs("insert_log", seg, fieldsLogDir, listFault = "field")
        deltaFieldsLogDir == IF listFault = "delta" THEN <<>> ELSE SourceLogs("delta_log", segId)
        listedDelta == FieldBinlogs("delta_log", seg, deltaFieldsLogDir, listFault = "field")
        deltaLogs == IF Len(listedDelta) = 0
                     THEN <<[fieldId |-> 0, binlogs |-> <<>>]>>
                     ELSE listedDelta
        size == BinlogsSize(insertLogs) + BinlogsSize(deltaLogs)
    IN IF Len(fieldsLogDir) = 0
       THEN [meta |-> m, err |-> "Get empty input path, but segment should not be empty"]
       ELSE [meta |-> UpdateSegment(m, seg.partitionId, segId,
                          [binlogs |-> insertLogs, deltalogs |-> deltaLogs, size |-> size]),
             err |-> ""]

----------------------------------------------------------------------------
(* copySegment, lines 768-875.  fault = [at, kind]: the binlog (insert     *)
(* logs first, then delta logs) at which the object store misbehaves, and  *)
(* how: "ExistErr" the existence check fails, "Missing" it reports the     *)
(* source absent, "CopyFail" the first fault.fails attempts of the copy    *)
(* fail; at = 0 none.                                                      *)

AllBinlogs(fieldBinlogs) ==
    Concat([i \in 1..Len(fieldBinlogs) |-> fieldBinlogs[i].binlogs])

\* lines 775-781
backupPathFunc(binlogPath, rootPath, dstPath) ==
    IF rootPath = "" THEN dstPath \o binlogPath
    ELSE ReplaceFirst(binlogPath, <<rootPath>>, dstPath)

\* lines 785-793 and 832-838
TargetPath(binlogPath, dstPath, partitionId, groupId) ==
    LET targetPath == backupPathFunc(binlogPath, MilvusRoot, dstPath)
    IN IF groupId # 0
       THEN ReplaceFirst(targetPath, <<FormatInt(partitionId)>>,
                         <<FormatInt(partitionId), FormatInt(groupId)>>)
       ELSE targetPath

\* line 806-811: the insert log whose source is missing ends copySegment
\* with the err of the existence check, which is nil
MissingInsertLogError(logPath) == ""

\* line 851-856
MissingDeltaLogError(logPath) == "Binlog file not exist"

\* retry.Do(fn, Attempts(attempts)) around a call whose first `fails`
\* invocations return an error: the invocations made and whether the last
\* one failed
RetryDo(fails, attempts) ==
    [tried |-> IF fails >= attempts THEN attempts ELSE fails + 1,
     failed |-> fails >= attempts]

\* lines 815 and 859: retry.Attempts(5)
CopyAttempts == 5

\* a copy that is given up after its first failure
CopyWithRetry_Once(fails) == RetryDo(fails, 1)

\* lines 813-815 and 857-859: the copy of one binlog
CopyWithRetry(fails) == RetryDo(fails, CopyAttempts)

\* whether the fault ends copySegment at the binlog it hits
FaultIsFatal(fault) ==
    IF fault.kind = "CopyFail" THEN CopyWithRetry(fault.fails).failed ELSE TRUE

copySegment(m, objects, segId, fault) ==
    LET segment == GetSegment(m, segId)
        backupInfo == GetBackupBySegmentID(m, segId)
        dstPath == BackupBinlogDirPath(BackupRoot, backupInfo.name)
        inserts == AllBinlogs(segment.binlogs)
        deltas == AllBinlogs(segment.deltalogs)
        nIns == Len(inserts)
        total == nIns + Len(deltas)
        \* line 787: the group id is set inside the insert-log loop
        groupId == IF nIns > 0 THEN segment.segmentId ELSE segment.groupId
        logPath(k) == IF k <= nIns THEN inserts[k].logPath ELSE deltas[k - nIns].logPath
        targets == [k \in 1..total |->
                       TargetPath(logPath(k), dstPath, segment.partitionId, groupId)]
        same == {k \in 1..total : targets[k] = logPath(k)}
        stopAt == IF fault.at \in 1..total /\ FaultIsFatal(fault) THEN fault.at ELSE total + 1
        firstSame == IF same = {} THEN total + 1 ELSE CHOOSE k \in same : \A j \in same : k <= j
        reached == IF firstSame <= stopAt THEN firstSame ELSE stopAt
        copied == {targets[k] : k \in 1..(reached - 1)}
        withGroup == [m EXCEPT !.segments[segId].groupId = groupId]
        err == IF reached = total + 1 THEN ""
               ELSE IF firstSame <= stopAt
               THEN "copy src path and dst path can not be the same"
               ELSE IF fault.kind = "Missing"
               THEN IF reached <= nIns THEN MissingInsertLogError(logPath(reached))
                    ELSE MissingDeltaLogError(logPath(reached))
               ELSE fault.kind
    IN [meta |-> IF reached = total + 1
                 THEN [withGroup EXCEPT !.segments[segId].backuped = TRUE]
                 ELSE withGroup,
        objects |-> objects \cup copied,
        finished |-> reached = total + 1,
        err |-> err]

----------------------------------------------------------------------------
(* The path computation of copySegment on strings.  A string is the        *)
(* sequence of its characters, a word standing for its letters as one      *)
(* element: the words used (files, backup, binlogs, insert_log, delta_log, *)
(* m, x, y) share no letter sequence, every digit and every separator is   *)
(* an element of its own, so ReplaceFirst on these sequences is            *)
(* strings.Replace(s, old, new, 1) on the strings.                         *)

DigitChars == <<"0", "1", "2", "3", "4", "5", "6", "7", "8", "9">>

\* strconv.FormatInt(n, 10)
RECURSIVE FormatIntString(_)
FormatIntString(n) ==
    IF n < 10 THEN <<DigitChars[n + 1]>>
    ELSE FormatIntString(n \div 10) \o <<DigitChars[(n % 10) + 1]>>

RECURSIVE JoinPath(_)
JoinPath(parts) ==
    IF parts = <<>> THEN <<>>
    ELSE IF Len(parts) = 1 THEN parts[1]
    ELSE parts[1] \o <<SEPERATOR>> \o JoinPath(Tail(parts))

BackupBinlogDirPathString(root, name) == JoinPath(<<root, name, <<"binlogs">> >>)

\* lines 881-887, 901 and 918, 922: the key ListWithPrefix returns for a
\* binlog of the segment, which becomes its LogPath
BinlogKey(rootPath, binlog, collId, partId, segId) ==
    (IF rootPath = <<>> THEN <<>> ELSE rootPath \o <<SEPERATOR>>)
    \o JoinPath(<< <<binlog.kind>>, FormatIntString(collId), FormatIntString(partId),
                   FormatIntString(segId), FormatIntString(binlog.fieldId), <<binlog.file>> >>)

\* a path function that sends every binlog to the directory itself
backupPathFuncString_Flat(binlogPath, rootPath, dstPath) == dstPath

\* lines 775-781
backupPathFuncString(binlogPath, rootPath, dstPath) ==
    IF rootPath = <<>> THEN dstPath \o <<SEPERATOR>> \o binlogPath
    ELSE ReplaceFirst(binlogPath, rootPath, dstPath)

\* lines 785-793 and 832-838
TargetPathString(binlogPath, rootPath, dstPath, partitionId, groupId) ==
    LET targetPath == backupPathFuncString(binlogPath, rootPath, dstPath)
    IN IF groupId # 0
       THEN ReplaceFirst(targetPath, FormatIntString(partitionId),
                         FormatIntString(partitionId) \o <<SEPERATOR>>
                             \o FormatIntString(groupId))
       ELSE targetPath

----------------------------------------------------------------------------
(* parseBackupCollections, lines 135-213.  A collection name is the        *)
(* sequence of its "."-separated parts; dbCollections is                   *)
(* [str, map]: str = "" when the request carries none, map the decoded     *)
(* JSON object (database -> collection names).  rpcFails: the VectorDB     *)
(* call made while parsing returns an error.                               *)

Coll(db, name) == [db |-> db, collectionName |-> name]

AllOf(db) == [i \in 1..Len(ListCollections(db)) |-> Coll(db, ListCollections(db)[i])]

RECURSIVE ParseDbCollections(_, _)
ParseDbCollections(dbs, map) ==
    IF dbs = {} THEN <<>>
    ELSE LET db == CHOOSE d \in dbs : TRUE
             collections == map[db]
         IN (IF Len(collections) = 0 THEN AllOf(db)
             ELSE [i \in 1..Len(collections) |-> Coll(db, collections[i])])
            \o ParseDbCollections(dbs \ {db}, map)

\* lines 190-196: default db unless the name contains "."
QualifiedName(collectionName) ==
    IF Len(collectionName) > 1 THEN Coll(collectionName[1], collectionName[2])
    ELSE Coll("default", collectionName[1])

ParseCallsVectorDB(request) ==
    IF request.dbCollections.str # ""
    THEN \E db \in DOMAIN request.dbCollections.map : Len(request.dbCollections.map[db]) = 0
    ELSE TRUE

\* line 114-121: what CreateBackup answers when executeCreateBackup fails
ExecuteErrorCode(err) == Fail

\* a parse that lets collectionNames take precedence over dbCollections
parseBackupCollections_NamesFirst(request, rpcFails) ==
    IF Len(request.collectionNames) # 0
    THEN [list |-> [i \in 1..Len(request.collectionNames) |->
                       QualifiedName(request.collectionNames[i])],
          err |-> ""]
    ELSE IF request.dbCollections.str # ""
    THEN [list |-> ParseDbCollections(DOMAIN request.dbCollections.map,
                                      request.dbCollections.map),
          err |-> ""]
    ELSE [list |-> Concat([i \in 1..Len(ListDatabases) |-> AllOf(ListDatabases[i])]),
          err |-> ""]

parseBackupCollections(request, rpcFails) ==
    IF request.dbCollections.str # ""
    THEN IF rpcFails /\ ParseCallsVectorDB(request)
         THEN [list |-> <<>>, err |-> "fail in ListCollections"]
         ELSE [list |-> ParseDbCollections(DOMAIN request.dbCollections.map,
                                           request.dbCollections.map),
               err |-> ""]
    ELSE IF Len(request.collectionNames) = 0
    THEN IF rpcFails THEN [list |-> <<>>, err |-> "fail in ListDatabases"]
         ELSE [list |-> Concat([i \in 1..Len(ListDatabases) |-> AllOf(ListDatabases[i])]),
               err |-> ""]
    ELSE LET names == [i \in 1..Len(request.collectionNames) |->
                          QualifiedName(request.collectionNames[i])]
             unknown == {i \in 1..Len(names) : ~HasCollection(names[i].db, names[i].collectionName)}
         IN IF rpcFails THEN [list |-> <<>>, err |-> "fail in HasCollection"]
            ELSE IF unknown # {}
            THEN [list |-> <<>>, err |-> "request backup collection does not exist"]
            ELSE [list |-> names, err |-> ""]

----------------------------------------------------------------------------
(* Requests issued in specification Spec *)

NoDbCollections == [str |-> "", map |-> <<>>]

DbCollections(colls) == [str |-> "json", map |-> [d \in {"default"} |-> colls]]

Request(name, async, force, metaOnly, collectionNames, dbCollections) ==
    [name |-> name, async |-> async, force |-> force, metaOnly |-> metaOnly,
     gcPauseEnable |-> FALSE,
     collectionNames |-> collectionNames, dbCollections |-> dbCollections]

Requests ==
    {Request("n1", FALSE, FALSE, FALSE, <<>>, NoDbCollections),
     Request("n1", TRUE, TRUE, TRUE, << <<"default", "c1">> >>, NoDbCollections),
     Request("n1", FALSE, FALSE, FALSE, << <<"ghost">> >>, NoDbCollections),
     Request("n1", FALSE, FALSE, FALSE, <<>>, DbCollections(<<"ghost">>)),
     Request("bad-name", FALSE, FALSE, FALSE, <<>>, NoDbCollections)}

\* utils.ValidateType(name, BACKUP_NAME): letters, digits and underscore
ValidBackupName(name) == name # "bad-name"

----------------------------------------------------------------------------
(* Specification Spec: CreateBackup calls on one engine *)

Init ==
    /\ pc = [c \in Calls |-> "idle"]
    /\ req = [c \in Calls |-> NoRequest]
    /\ resp = [c \in Calls |-> NoResponse]
    /\ mu = 0
    /\ meta = newMetaManager
    /\ store = {}
    /\ exec = IdleExec
    /\ copyJobs = {}
    /\ faults = 0
    /\ ctxDone = {}
    /\ mgmt = NoManagement
    /\ pools = NoPools
    /\ env = NoEnv
    /\ paths = NoPaths
    /\ pin = IdleInput
    /\ pout = IdleOutcome

Response(code, msg, backup) ==
    [code |-> code, msg |-> msg, state |-> backup.stateCode,
     errorMessage |-> backup.errorMessage]

NoData == [stateCode |-> "", errorMessage |-> ""]

\* whether one more environment failure may be injected
MayFail == faults < MaxFaults

FaultChoice == IF MayFail THEN BOOLEAN ELSE {FALSE}

Spend(n) == faults' = faults + n

NoReject == [code |-> "", msg |-> ""]

\* a variant of the name check that skips the existence test
CheckBackupName_NoExist(objects, name, existFails) ==
    IF ~ValidBackupName(name)
    THEN [code |-> Parameter_Error, msg |-> "illegal backup name"]
    ELSE NoReject

\* lines 57-80: the existence check of the backup's path and the validation
\* of its name; NoReject when the name passes
CheckBackupName(objects, name, existFails) ==
    IF existFails
    THEN [code |-> Fail, msg |-> "fail to check whether exist backup with name"]
    ELSE IF Exist(objects, BackupDirPath(BackupRoot, name))
    THEN [code |-> Parameter_Error, msg |-> "backup already exist with the name"]
    ELSE IF ~ValidBackupName(name)
    THEN [code |-> Parameter_Error, msg |-> "illegal backup name"]
    ELSE NoReject

\* CreateBackup up to the registration of the task, lines 27-110.
\* Calls arrive in the order of their ids; the request id is the call id.
\* GetVersion (line 82) answers.
CreateBackup(c) ==
    /\ pc[c] = "idle"
    /\ \A d \in Calls : d < c => pc[d] # "idle"
    /\ \E r \in Requests, existFails \in FaultChoice :
        LET backup == [id |-> c, name |-> r.name, stateCode |-> BACKUP_INITIAL,
                       errorMessage |-> "", size |-> 0, endTime |-> 0]
            check == CheckBackupName(store, r.name, existFails)
        IN /\ req' = [req EXCEPT ![c] = r]
           /\ Spend(IF existFails THEN 1 ELSE 0)
           /\ IF check # NoReject
              THEN /\ resp' = [resp EXCEPT ![c] = Response(check.code, check.msg, NoData)]
                   /\ pc' = [pc EXCEPT ![c] = "done"]
                   /\ meta' = meta
              ELSE /\ meta' = AddBackup(meta, backup)
                   /\ pc' = [pc EXCEPT ![c] = "lockwait"]
                   /\ resp' = IF r.async
                              THEN [resp EXCEPT ![c] =
                                      Response(Success, "create backup is executing asynchronously", backup)]
                              ELSE resp
    /\ UNCHANGED <<mu, store, exec, copyJobs, pin, pout, ctxDone, mgmt, paths, env, pools>>

\* a mutex that admits a caller while another one holds it
MutexLock_Reentrant(holder) == TRUE

\* line 587: b.mu.Lock() returns only when no invocation holds the mutex
MutexLock(holder) == holder = 0

\* a check that looks at the request only
GcPauseEnabled_RequestOnly(request, e) == request.gcPauseEnable

\* line 591
GcPauseEnabled(request, e) == request.gcPauseEnable \/ e.cfgGcPause

\* the outcomes of the HTTP call of pauseMilvusGC or resumeMilvusGC: whether
\* it failed; the call is issued only when the pause is enabled
GcCallFails(request, e) == IF GcPauseEnabled(request, e) THEN BOOLEAN ELSE {FALSE}

\* lines 588 and 605: the calls executeCreateBackup defers, in the order of
\* their defer statements
DeferredCalls(request, e) ==
    IF GcPauseEnabled(request, e) THEN <<"Unlock", "resumeMilvusGC">> ELSE <<"Unlock">>

\* deferred calls run last in, first out
RunDeferred(deferred) == [i \in 1..Len(deferred) |-> deferred[Len(deferred) + 1 - i]]

\* whether the mutex is still held when the i-th of the deferred calls runs
HeldAt(run, i) == \A k \in 1..(i - 1) : run[k] # "Unlock"

\* the resume calls issued while the deferred calls of call c run
ResumeCalls(c, run, failed) ==
    LET at == {i \in DOMAIN run : run[i] = "resumeMilvusGC"}
    IN [k \in 1..Cardinality(at) |->
          [op |-> "resume", call |-> c, failed |-> failed,
           held |-> HeldAt(run, CHOOSE i \in at : Cardinality({j \in at : j <= i}) = k)]]

\* executeCreateBackup, lines 587-606: b.mu.Lock(), and when the GC pause is
\* enabled pauseMilvusGC
Lock(c) ==
    /\ pc[c] = "lockwait"
    /\ MutexLock(mu)
    /\ mu' = c
    /\ pc' = [pc EXCEPT ![c] = "parse"]
    /\ exec' = IdleExec
    /\ \E failed \in GcCallFails(req[c], env) :
          env' = IF GcPauseEnabled(req[c], env)
                 THEN [env EXCEPT !.gc = Append(@, [op |-> "pause", call |-> c,
                                                    failed |-> failed, held |-> TRUE])]
                 ELSE env
    /\ UNCHANGED <<req, resp, meta, store, copyJobs, faults, pin, pout, ctxDone, mgmt, paths, pools>>

\* return of executeCreateBackup with meta m and error err (the deferred
\* calls: resumeMilvusGC when it was deferred, and Unlock), and for a
\* synchronous call the response of lines 112-121
Return(c, m, err) ==
    /\ meta' = m
    /\ mu' = 0
    /\ \E failed \in GcCallFails(req[c], env) :
          env' = [env EXCEPT !.gc = @ \o ResumeCalls(c, RunDeferred(DeferredCalls(req[c], env)),
                                                     failed)]
    /\ exec' = IdleExec
    /\ pc' = [pc EXCEPT ![c] = "done"]
    /\ resp' = IF req[c].async THEN resp
               ELSE [resp EXCEPT ![c] =
                       Response(IF err = "" THEN Success ELSE ExecuteErrorCode(err),
                                IF err = "" THEN "success" ELSE err,
                                GetBackup(m, c))]

\* lines 618, 652, 671
FailBackup(m, c, err) ==
    UpdateBackup(m, c, [stateCode |-> BACKUP_FAIL, errorMessage |-> err])

\* lines 615-625
Parse(c) ==
    /\ pc[c] = "parse" /\ mu = c
    /\ \E rpcFails \in FaultChoice :
        LET r == parseBackupCollections(req[c], rpcFails)
        IN /\ rpcFails => ParseCallsVectorDB(req[c])
           /\ Spend(IF rpcFails THEN 1 ELSE 0)
           /\ IF r.err # ""
              THEN Return(c, FailBackup(meta, c, r.err), r.err)
              ELSE /\ exec' = [exec EXCEPT !.toBackup = r.list, !.next = 1]
                   /\ pc' = [pc EXCEPT ![c] = "prepare"]
                   /\ UNCHANGED <<meta, mu, resp, paths, env, pools>>
    /\ UNCHANGED <<req, store, copyJobs, pin, pout, ctxDone, mgmt, paths, pools>>

\* lines 630-647: one job of the prepare wave, the retry loop around
\* backupCollectionPrepare; failAt "" is a run that succeeds, any other
\* value the call that fails in every attempt
PrepareJob(c) ==
    /\ pc[c] = "prepare" /\ mu = c
    /\ exec.next <= Len(exec.toBackup)
    /\ LET collection == exec.toBackup[exec.next]
           known == HasCollection(collection.db, collection.collectionName)
       IN \E failAt \in {"", "DescribeCollection", "FlushV2"} :
            LET r == backupCollectionPrepare(meta, c, ClusterPrepareInput(failAt), req[c].force)
            IN /\ ~known => failAt = "DescribeCollection"
               /\ (known /\ failAt # "") => MayFail
               /\ (failAt # "") => r.err # ""
               /\ Spend(IF known /\ failAt # "" THEN 1 ELSE 0)
               /\ meta' = r.meta
               /\ exec' = [exec EXCEPT !.next = @ + 1,
                                       !.err = IF @ = "" THEN r.err ELSE @]
    /\ UNCHANGED <<pc, req, resp, mu, store, copyJobs, pin, pout, ctxDone, mgmt, paths, env, pools>>

\* an execution that runs the execute wave whatever the request says
SkipExecute_Never(metaOnly) == FALSE

\* line 657: the execute wave is skipped when the request is metaOnly
SkipExecute(metaOnly) == metaOnly

\* a wait that returns as soon as one job of the wave has completed
WaitJobsPrepare_First(e) == e.next > 1

\* line 648: WaitJobs returns when every prepare job submitted has completed
WaitJobsPrepare(e) == e.next > Len(e.toBackup)

\* lines 648-657: WaitJobs of the prepare wave
PrepareWait(c) ==
    /\ pc[c] = "prepare" /\ mu = c
    /\ WaitJobsPrepare(exec)
    /\ IF exec.err # ""
       THEN Return(c, FailBackup(meta, c, exec.err), exec.err)
       ELSE /\ pc' = [pc EXCEPT ![c] = IF SkipExecute(req[c].metaOnly) THEN "success" ELSE "execute"]
            /\ exec' = [exec EXCEPT !.colls = GetCollections(meta, c)]
            /\ UNCHANGED <<meta, mu, resp, paths, env, pools>>
    /\ UNCHANGED <<req, store, copyJobs, faults, pin, pout, ctxDone, mgmt, paths, pools>>

\* the orders sort.SliceStable by the stored size leaves a set of segments in
Orders(m, segs) ==
    {o \in SeqsUpTo(segs, Cardinality(segs)) :
        /\ Len(o) = Cardinality(segs)
        /\ Range(o) = segs
        /\ \A i, j \in 1..Len(o) : i < j => m.segments[o[i]].size <= m.segments[o[j]].size}

\* lines 658-667 and 515-531: a job of the execute wave starts
\* backupCollectionExecute for one collection of the backup
ExecuteJob(c) ==
    /\ pc[c] = "execute" /\ mu = c
    /\ exec.colls # {}
    /\ \E collId \in exec.colls :
        LET segs == UNION {GetSegments(meta, p) : p \in GetPartitions(meta, collId)}
        IN \E o \in Orders(meta, segs) :
            exec' = [exec EXCEPT !.colls = @ \ {collId}, !.coll = collId,
                                 !.order = o, !.results = <<>>]
    /\ pc' = [pc EXCEPT ![c] = "copy"]
    /\ UNCHANGED <<req, resp, mu, meta, store, copyJobs, faults, pin, pout, ctxDone, mgmt, paths, env, pools>>

\* the listing failures the environment of Spec produces
ListFaults == {"insert", "field", "delta"}

\* copySegments, lines 745-762: fill the next segment and submit its copy
\* job; a failing fill ends copySegments at once
FillSegment(c) ==
    /\ pc[c] = "copy" /\ mu = c
    /\ exec.order # <<>>
    /\ \E listFault \in {""} \cup (IF MayFail THEN ListFaults ELSE {}) :
        LET segId == Head(exec.order)
            r == fillSegmentBackupInfo(meta, segId, listFault)
        IN /\ Spend(IF listFault = "" THEN 0 ELSE 1)
           /\ meta' = r.meta
           /\ env' = [env EXCEPT
                        !.emptyListing =
                            IF listFault = "insert"
                            THEN @ \cup {[owner |-> c, seg |-> segId,
                                          before |-> GetSegment(meta, segId)]}
                            ELSE @,
                        !.listFailed =
                            IF listFault # ""
                            THEN @ \cup {[owner |-> c, seg |-> segId, call |-> listFault]}
                            ELSE @]
           /\ IF r.err # ""
              THEN /\ exec' = [exec EXCEPT !.order = <<>>, !.coll = 0,
                                           !.err = IF @ = "" THEN r.err ELSE @]
                   /\ pc' = [pc EXCEPT ![c] = "execute"]
                   /\ copyJobs' = copyJobs
              ELSE /\ exec' = [exec EXCEPT !.order = Tail(@)]
                   /\ copyJobs' = copyJobs \cup {[owner |-> c, seg |-> segId]}
                   /\ pc' = pc
    /\ UNCHANGED <<req, resp, mu, store, pin, pout, ctxDone, mgmt, paths, pools>>

NoFault == [at |-> 0, kind |-> "", fails |-> 0]

\* consecutive failing attempts of a copy the object store is made to
\* produce: a transient failure and one that outlasts the retries
CopyFailures == {2, CopyAttempts}

CopyFaults(m, segId) ==
    LET segment == GetSegment(m, segId)
        total == Len(AllBinlogs(segment.binlogs)) + Len(AllBinlogs(segment.deltalogs))
    IN {[at |-> k, kind |-> "Missing", fails |-> 0] : k \in 1..total}
       \cup {[at |-> k, kind |-> "CopyFail", fails |-> n] : k \in 1..total, n \in CopyFailures}

\* the copy jobs a call may submit: one per segment of the cluster
CopyJobs == {[owner |-> c, seg |-> ClusterSegments[i].id] : c \in Calls, i \in DOMAIN ClusterSegments}

\* a copySegment job runs on the copy pool, lines 757-759
CopySegmentJob(j) ==
    /\ j \in copyJobs
    /\ \E fault \in {NoFault} \cup (IF MayFail THEN CopyFaults(meta, j.seg) ELSE {}) :
        LET r == copySegment(meta, store, j.seg, fault)
            waited == mu = j.owner /\ pc[j.owner] = "copy" /\ exec.coll # 0
        IN /\ Spend(IF fault = NoFault THEN 0 ELSE 1)
           /\ meta' = r.meta
           /\ store' = r.objects
           /\ exec' = IF waited
                      THEN [exec EXCEPT !.results = Append(@, [seg |-> j.seg, err |-> r.err])]
                      ELSE exec
           /\ env' = [env EXCEPT
                        !.missing = IF fault.kind = "Missing" THEN @ \cup {j} ELSE @,
                        !.copyTried =
                            IF fault.kind = "CopyFail"
                            THEN @ \cup {[job |-> j, fails |-> fault.fails,
                                          tried |-> CopyWithRetry(fault.fails).tried,
                                          err |-> r.err,
                                          before |-> GetSegment(meta, j.seg).backuped,
                                          backuped |-> GetSegment(r.meta, j.seg).backuped]}
                            ELSE @]
    /\ copyJobs' = copyJobs \ {j}
    /\ UNCHANGED <<pc, req, resp, mu, pin, pout, ctxDone, mgmt, paths, pools>>

\* lines 764-765 and 532-543: WaitJobs of the copy jobs, end of
\* backupCollectionExecute
CopyWait(c) ==
    /\ pc[c] = "copy" /\ mu = c
    /\ exec.order = <<>>
    /\ ~\E j \in copyJobs : j.owner = c
    /\ LET failed == SelectSeq(exec.results, LAMBDA x : x.err # "")
           err == IF failed = <<>> THEN "" ELSE failed[1].err
       IN /\ exec' = [exec EXCEPT !.coll = 0, !.results = <<>>,
                                  !.err = IF @ = "" THEN err ELSE @]
          /\ meta' = IF err = ""
                     THEN UpdateCollection(meta, c, exec.coll, [endTime |-> 1])
                     ELSE meta
    /\ pc' = [pc EXCEPT ![c] = "execute"]
    /\ UNCHANGED <<req, resp, mu, store, copyJobs, faults, pin, pout, ctxDone, mgmt, paths, env, pools>>

\* lines 669-673: WaitJobs of the execute wave
ExecuteWait(c) ==
    /\ pc[c] = "execute" /\ mu = c
    /\ exec.colls = {}
    /\ IF exec.err # ""
       THEN Return(c, FailBackup(meta, c, exec.err), exec.err)
       ELSE /\ pc' = [pc EXCEPT ![c] = "success"]
            /\ UNCHANGED <<meta, mu, resp, exec, paths, env, pools>>
    /\ UNCHANGED <<req, store, copyJobs, faults, pin, pout, ctxDone, mgmt, paths, pools>>

\* lines 683-684
SetSuccess(c) ==
    /\ pc[c] = "success" /\ mu = c
    /\ meta' = UpdateBackup(meta, c, [stateCode |-> BACKUP_SUCCESS, endTime |-> 1])
    /\ pc' = [pc EXCEPT ![c] = "write"]
    /\ UNCHANGED <<req, resp, mu, store, exec, copyJobs, faults, pin, pout, ctxDone, mgmt, paths, env, pools>>

\* line 103 / 112 and 687: the context executeCreateBackup hands to
\* writeBackupInfoMeta is the one the caller passed to CreateBackup
WriteContextDone(c) == c \in ctxDone

\* writeBackupInfoMeta, lines 701-741: the files whose Write succeeds
WrittenManifest(name, failed) ==
    {ManifestPath(BackupRoot, name, ManifestFiles[i]) :
        i \in {k \in 1..Len(ManifestFiles) : ManifestFiles[k] \notin failed}}

\* a failure of the manifest write that reaches the stored backup
AfterWriteFailure_Stored(m, c, err) ==
    UpdateBackup(m, c, [stateCode |-> BACKUP_FAIL, errorMessage |-> err])

\* lines 688-691: the state and the message are assigned to the BackupInfo
\* executeCreateBackup was passed, which MetaManager no longer holds
AfterWriteFailure(m, c, err) == m

\* lines 687-699: the manifest write and the return.  marshalFails:
\* json.Marshal of the channel positions returns an error; failed: the files
\* whose Write returns an error.  Lines 689-690 assign to the caller's
\* BackupInfo, which the UpdateBackup of line 684 replaced in MetaManager.
\* The Writes are given the context of the caller (lines 687, 729-734): once
\* that context is cancelled each of them returns an error.
WriteMeta(c) ==
    /\ pc[c] = "write" /\ mu = c
    /\ \E marshalFails \in FaultChoice, failed \in SUBSET {ManifestFiles[1], ManifestFiles[6]} :
        /\ Cardinality(failed) <= MaxFaults - faults
        /\ marshalFails => failed = {}
        /\ Spend(IF marshalFails THEN 1 ELSE Cardinality(failed))
        /\ IF marshalFails
           THEN /\ store' = store
                /\ Return(c, AfterWriteFailure(meta, c, "json: error calling MarshalJSON"),
                          "json: error calling MarshalJSON")
           ELSE /\ store' = IF WriteContextDone(c) THEN store
                           ELSE store \cup WrittenManifest(req[c].name, failed)
                /\ Return(c, meta, "")
    /\ UNCHANGED <<req, copyJobs, pin, pout, ctxDone, mgmt, paths, pools>>

\* the caller of a CreateBackup that has been registered and has not finished
\* cancels the context it passed (for an asynchronous call: after the
\* response).  The prepare and copy jobs run on the pools' context, which is
\* the engine's (b.ctx), and are not reached by it.
Cancel(c) ==
    /\ pc[c] \notin {"idle", "done"}
    /\ c \notin ctxDone
    /\ MayFail
    /\ Spend(1)
    /\ ctxDone' = ctxDone \cup {c}
    /\ UNCHANGED <<pc, req, resp, mu, meta, store, exec, copyJobs, pin, pout, mgmt, paths, env, pools>>

Next ==
    \/ \E c \in Calls : CreateBackup(c)
    \/ \E c \in Calls : Lock(c)
    \/ \E c \in Calls : Parse(c)
    \/ \E c \in Calls : PrepareJob(c)
    \/ \E c \in Calls : PrepareWait(c)
    \/ \E c \in Calls : ExecuteJob(c)
    \/ \E c \in Calls : FillSegment(c)
    \/ \E j \in CopyJobs : CopySegmentJob(j)
    \/ \E c \in Calls : CopyWait(c)
    \/ \E c \in Calls : ExecuteWait(c)
    \/ \E c \in Calls : SetSuccess(c)
    \/ \E c \in Calls : WriteMeta(c)
    \/ \E c \in Calls : Cancel(c)

Spec == Init /\ [][Next]_vars

----------------------------------------------------------------------------
(* Specification SpecParse: the parse and the prepare wave of one          *)
(* executeCreateBackup, over the forms a request can take.  Call 1 has     *)
(* been registered and holds the mutex; its request carries up to MaxNames *)
(* collection names and one of the dbCollections forms.                    *)

MaxNames == 2

NameForms == {<<"c1">>, <<"default", "c1">>, <<"db2", "c1">>, <<"ghost">>}

DbCollectionForms ==
    {NoDbCollections, DbCollections(<<>>), DbCollections(<<"c1">>),
     DbCollections(<<"c1", "c1">>),
     [str |-> "json",
      map |-> [d \in {"default", "db2"} |-> IF d = "default" THEN <<>> ELSE <<"c9">>]]}

ParseRequests ==
    {Request("n1", FALSE, FALSE, TRUE, names, dbc) :
        names \in SeqsUpTo(NameForms, MaxNames), dbc \in DbCollectionForms}

InitParse ==
    /\ pc = [c \in Calls |-> IF c = 1 THEN "parse" ELSE "idle"]
    /\ req \in {[c \in Calls |-> IF c = 1 THEN r ELSE NoRequest] : r \in ParseRequests}
    /\ resp = [c \in Calls |-> NoResponse]
    /\ mu = 1
    /\ meta = AddBackup(newMetaManager,
                        [id |-> 1, name |-> "n1", stateCode |-> BACKUP_INITIAL,
                         errorMessage |-> "", size |-> 0, endTime |-> 0])
    /\ store = {}
    /\ exec = IdleExec
    /\ copyJobs = {}
    /\ faults = 0
    /\ ctxDone = {}
    /\ mgmt = NoManagement
    /\ pools = NoPools
    /\ env = NoEnv
    /\ paths = NoPaths
    /\ pin = IdleInput
    /\ pout = IdleOutcome

NextParse ==
    \/ Parse(1)
    \/ PrepareJob(1)

SpecParse == InitParse /\ [][NextParse]_vars

\* the prepare jobs executeCreateBackup has run for the call holding the mutex
PreparedSoFar == SubSeq(exec.toBackup, 1, exec.next - 1)

\* C11: the collections prepared by the jobs of one backup are pairwise
\* distinct (db, collection) pairs, whatever the request repeats
C11_NoCollectionPreparedTwice ==
    \A i, j \in 1..Len(PreparedSoFar) : i # j => PreparedSoFar[i] # PreparedSoFar[j]

SelectedByDbCollections(r) ==
    UNION {IF Len(r.dbCollections.map[db]) = 0
           THEN {Coll(db, n) : n \in Range(ListCollections(db))}
           ELSE {Coll(db, n) : n \in Range(r.dbCollections.map[db])} :
           db \in DOMAIN r.dbCollections.map}

SelectedByNames(r) ==
    {Coll(IF Len(n) > 1 THEN n[1] ELSE "default", n[Len(n)]) : n \in Range(r.collectionNames)}

SelectedAll ==
    UNION {{Coll(db, n) : n \in Range(ListCollections(db))} : db \in Range(ListDatabases)}

----------------------------------------------------------------------------
(* Specification SpecWaves: executeCreateBackup of a request that selects  *)
(* two collections, so that its prepare wave has two jobs.  Call 1 has     *)
(* been registered and waits for the mutex.                                *)

WaveRequests ==
    {Request("n1", FALSE, FALSE, FALSE, << <<"c1">>, <<"default", "c1">> >>, NoDbCollections),
     Request("n1", TRUE, FALSE, FALSE, << <<"c1">>, <<"default", "c1">> >>, NoDbCollections),
     Request("n1", FALSE, FALSE, FALSE, <<>>, DbCollections(<<"c1", "ghost">>)),
     Request("n1", FALSE, FALSE, FALSE, <<>>, DbCollections(<<"ghost", "c1">>)),
     Request("n1", FALSE, TRUE, FALSE, <<>>, DbCollections(<<"c1">>))}

InitWaves ==
    /\ pc = [c \in Calls |-> IF c = 1 THEN "lockwait" ELSE "idle"]
    /\ req \in {[c \in Calls |-> IF c = 1 THEN r ELSE NoRequest] : r \in WaveRequests}
    /\ resp = [c \in Calls |->
                 IF c = 1 /\ req[c].async
                 THEN Response(Success, "create backup is executing asynchronously",
                               [stateCode |-> BACKUP_INITIAL, errorMessage |-> ""])
                 ELSE NoResponse]
    /\ mu = 0
    /\ meta = AddBackup(newMetaManager,
                        [id |-> 1, name |-> "n1", stateCode |-> BACKUP_INITIAL,
                         errorMessage |-> "", size |-> 0, endTime |-> 0])
    /\ store = {}
    /\ exec = IdleExec
    /\ copyJobs = {}
    /\ faults = 0
    /\ ctxDone = {}
    /\ mgmt = NoManagement
    /\ pools = NoPools
    /\ env = NoEnv
    /\ paths = NoPaths
    /\ pin = IdleInput
    /\ pout = IdleOutcome

SpecWaves == InitWaves /\ [][Next]_vars

\* the positions of a call in its execute wave
ExecuteWave == {"execute", "copy"}

\* C25: a call enters its execute wave only from the end of a prepare wave
\* all of whose jobs have completed without error; while it is in the
\* execute wave no prepare job is outstanding, and copy jobs exist only for
\* calls that have passed their prepare wave
C25_PrepareBarrier ==
    /\ [][\A c \in Calls :
             (pc'[c] \in ExecuteWave /\ pc[c] \notin ExecuteWave) =>
                 /\ pc[c] = "prepare"
                 /\ exec.next > Len(exec.toBackup)
                 /\ exec.err = ""]_vars
    /\ [](\A c \in Calls : pc[c] \in ExecuteWave => exec.next > Len(exec.toBackup))
    /\ [](\A j \in copyJobs : pc[j.owner] \notin {"idle", "lockwait", "parse", "prepare"})

C25_Witness ==
    /\ pc[1] = "copy"
    /\ Len(exec.toBackup) = 2
    /\ exec.next = 3
    /\ copyJobs # {}

----------------------------------------------------------------------------
(* Specification SpecGC: executeCreateBackup with the GC pause enabled by  *)
(* the request, by the configuration, by both or by neither.  Call 1 has   *)
(* been registered and waits for the mutex.                                *)

GcRequests ==
    {[r EXCEPT !.gcPauseEnable = g] :
        r \in {Request("n1", FALSE, FALSE, FALSE, << <<"c1">> >>, NoDbCollections),
               Request("n1", FALSE, FALSE, TRUE, << <<"c1">> >>, NoDbCollections),
               Request("n1", FALSE, FALSE, FALSE, << <<"ghost">> >>, NoDbCollections)},
        g \in BOOLEAN}

InitGC ==
    /\ pc = [c \in Calls |-> IF c = 1 THEN "lockwait" ELSE "idle"]
    /\ req \in {[c \in Calls |-> IF c = 1 THEN r ELSE NoRequest] : r \in GcRequests}
    /\ resp = [c \in Calls |-> NoResponse]
    /\ mu = 0
    /\ meta = AddBackup(newMetaManager,
                        [id |-> 1, name |-> "n1", stateCode |-> BACKUP_INITIAL,
                         errorMessage |-> "", size |-> 0, endTime |-> 0])
    /\ store = {}
    /\ exec = IdleExec
    /\ copyJobs = {}
    /\ faults = 0
    /\ ctxDone = {}
    /\ mgmt = NoManagement
    /\ pools = NoPools
    /\ env \in {[NoEnv EXCEPT !.cfgGcPause = g] : g \in BOOLEAN}
    /\ paths = NoPaths
    /\ pin = IdleInput
    /\ pout = IdleOutcome

SpecGC == InitGC /\ [][Next]_vars

----------------------------------------------------------------------------
(* Specification SpecPools: the jobs of one executeCreateBackup on the     *)
(* collection pool and on the copy pool.  The backup has                   *)
(* NumPoolCollections collections of SegmentsPerCollection segments each.  *)
(* The collection                                                          *)
(* pool exists (getBackupCollectionWorkerPool is called by                 *)
(* executeCreateBackup only, under the mutex); the copy pool is created by *)
(* the first getCopyDataWorkerPool, which the execute jobs call without    *)
(* synchronisation: the test of line 181, the assignment of line 187 and   *)
(* the read of line 190 are separate steps.  pools.field is                *)
(* b.backupCopyDataWorkerPool (0 for nil), pools.job[k] the job of         *)
(* collection k: its position, the segments it has still to submit and the *)
(* pool its last getCopyDataWorkerPool returned.  pools.jobIds is the      *)
(* jobIds list of executeCreateBackup (the prepare job of collection k has *)
(* id k, its execute job id NumPoolCollections + k), pools.completed the   *)
(* ids of the jobs of the collection pool that have completed, and         *)
(* pools.returned whether the wait of the execute wave has returned.       *)

NumPoolCollections == 2

SegmentsPerCollection == 2

\* b.params.BackupCfg.BackupCollectionParallelism
BackupCollectionParallelism == 2

\* b.params.BackupCfg.BackupCopyDataParallelism
BackupCopyDataParallelism == 1

PoolCollections == 1..NumPoolCollections

\* every job creates at most one pool
PoolIds == 1..NumPoolCollections

PoolCopyJobs == {[coll |-> k, seg |-> n] : k \in PoolCollections, n \in 1..SegmentsPerCollection}

InitPools ==
    /\ pc = [c \in Calls |-> "idle"]
    /\ req = [c \in Calls |-> NoRequest]
    /\ resp = [c \in Calls |-> NoResponse]
    /\ mu = 0
    /\ meta = newMetaManager
    /\ store = {}
    /\ exec = IdleExec
    /\ copyJobs = {}
    /\ faults = 0
    /\ ctxDone = {}
    /\ mgmt = NoManagement
    /\ env = NoEnv
    /\ paths = NoPaths
    /\ pin = IdleInput
    /\ pout = IdleOutcome
    /\ pools = [NoPools EXCEPT
                   !.job = [k \in PoolCollections |->
                               [pc |-> "prepare-queued", left |-> SegmentsPerCollection,
                                pool |-> 0]],
                   !.queue = [p \in PoolIds |-> <<>>],
                   !.running = [p \in PoolIds |-> {}],
                   !.jobIds = [k \in PoolCollections |-> k]]

OtherThanPools ==
    <<pc, req, resp, mu, meta, store, exec, copyJobs, faults, pin, pout, ctxDone, mgmt, paths,
      env>>

\* the positions at which a job occupies a worker of the collection pool
OnCollectionPool ==
    {"prepare", "read", "create", "return", "submit", "wait"}

CollectionJobsRunning == {k \in PoolCollections : pools.job[k].pc \in OnCollectionPool}

\* WorkerPool: a queued job is dispatched when a worker is free
WorkerFree(running, concurrency) == Cardinality(running) < concurrency

\* WorkerPool: WaitJobs(ids) returns when every job of ids has completed
WaitJobs(ids, completed) == \A i \in DOMAIN ids : ids[i] \in completed

\* a wait that returns when one of the jobs has completed
ExecuteWaveDone_Any(p) == \E i \in DOMAIN p.jobIds : p.jobIds[i] \in p.completed

\* line 669: WaitJobs on the job id list of executeCreateBackup
ExecuteWaveDone(p) == WaitJobs(p.jobIds, p.completed)

\* lines 632-645: a prepare job is dispatched
PrepareJobStart(k) ==
    /\ pools.job[k].pc = "prepare-queued"
    /\ WorkerFree(CollectionJobsRunning, BackupCollectionParallelism)
    /\ pools' = [pools EXCEPT !.job[k].pc = "prepare"]
    /\ UNCHANGED OtherThanPools

PrepareJobEnd(k) ==
    /\ pools.job[k].pc = "prepare"
    /\ pools' = [pools EXCEPT !.job[k].pc = "prepared", !.completed = @ \cup {k}]
    /\ UNCHANGED OtherThanPools

\* lines 648-667: the prepare jobs have been waited for, the execute jobs
\* are submitted
SubmitExecuteJobs ==
    /\ \A k \in PoolCollections : pools.job[k].pc = "prepared"
    /\ WaitJobs(pools.jobIds, pools.completed)
    /\ pools' = [pools EXCEPT !.job = [k \in PoolCollections |->
                                          [pools.job[k] EXCEPT !.pc = "execute-queued"]],
                              !.jobIds = @ \o [k \in PoolCollections |->
                                                 NumPoolCollections + k]]
    /\ UNCHANGED OtherThanPools

\* an execute job is dispatched and reaches its first getCopyDataWorkerPool
\* (line 760)
ExecuteJobStart(k) ==
    /\ pools.job[k].pc = "execute-queued"
    /\ WorkerFree(CollectionJobsRunning, BackupCollectionParallelism)
    /\ pools' = [pools EXCEPT !.job[k].pc = "read"]
    /\ UNCHANGED OtherThanPools

\* line 181: the test of the field
GetCopyPoolTest(k) ==
    /\ pools.job[k].pc = "read"
    /\ pools' = [pools EXCEPT !.job[k].pc = IF pools.field = 0 THEN "create" ELSE "return"]
    /\ UNCHANGED OtherThanPools

\* lines 182-188: a pool is created, assigned to the field and started
GetCopyPoolCreate(k) ==
    /\ pools.job[k].pc = "create"
    /\ pools' = [pools EXCEPT !.created = @ + 1, !.field = pools.created + 1,
                              !.job[k].pc = "return"]
    /\ UNCHANGED OtherThanPools

\* line 190: the field is read and returned; lines 760 and 764: the caller
\* submits the next segment's job to the pool returned, or waits on it
GetCopyPoolReturn(k) ==
    /\ pools.job[k].pc = "return"
    /\ pools' = [pools EXCEPT !.job[k].pool = pools.field,
                              !.job[k].pc = IF pools.job[k].left > 0 THEN "submit" ELSE "wait"]
    /\ UNCHANGED OtherThanPools

\* line 760: SubmitWithId on the pool returned
SubmitCopyJob(k) ==
    /\ pools.job[k].pc = "submit"
    /\ LET p == pools.job[k].pool
           j == [coll |-> k, seg |-> pools.job[k].left]
       IN pools' = [pools EXCEPT !.queue[p] = Append(@, j),
                                 !.job[k].left = @ - 1,
                                 !.job[k].pc = "read"]
    /\ UNCHANGED OtherThanPools

\* a worker of copy pool p takes the job at the head of the pool's queue
CopyJobStart(p) ==
    /\ pools.queue[p] # <<>>
    /\ WorkerFree(pools.running[p], BackupCopyDataParallelism)
    /\ pools' = [pools EXCEPT !.queue[p] = Tail(@),
                              !.running[p] = @ \cup {Head(pools.queue[p])}]
    /\ UNCHANGED OtherThanPools

CopyJobEnd(p, j) ==
    /\ j \in pools.running[p]
    /\ pools' = [pools EXCEPT !.running[p] = @ \ {j}, !.finished = @ \cup {j}]
    /\ UNCHANGED OtherThanPools

\* line 764: WaitJobs returns once the copy jobs of the collection have
\* completed; the worker of the collection pool is released
WaitCopyJobs(k) ==
    /\ pools.job[k].pc = "wait"
    /\ \A j \in PoolCopyJobs : j.coll = k => j \in pools.finished
    /\ pools' = [pools EXCEPT !.job[k].pc = "done",
                              !.completed = @ \cup {NumPoolCollections + k}]
    /\ UNCHANGED OtherThanPools

\* lines 669-673: WaitJobs(jobIds) of the execute wave returns; jobIds
\* holds the ids of both waves
ExecuteWaveWait ==
    /\ ~pools.returned
    /\ Len(pools.jobIds) > NumPoolCollections
    /\ ExecuteWaveDone(pools)
    /\ pools' = [pools EXCEPT !.returned = TRUE]
    /\ UNCHANGED OtherThanPools

NextPools ==
    \/ \E k \in PoolCollections : PrepareJobStart(k)
    \/ \E k \in PoolCollections : PrepareJobEnd(k)
    \/ SubmitExecuteJobs
    \/ \E k \in PoolCollections : ExecuteJobStart(k)
    \/ \E k \in PoolCollections : GetCopyPoolTest(k)
    \/ \E k \in PoolCollections : GetCopyPoolCreate(k)
    \/ \E k \in PoolCollections : GetCopyPoolReturn(k)
    \/ \E k \in PoolCollections : SubmitCopyJob(k)
    \/ \E p \in PoolIds : CopyJobStart(p)
    \/ \E p \in PoolIds, j \in PoolCopyJobs : CopyJobEnd(p, j)
    \/ \E k \in PoolCollections : WaitCopyJobs(k)
    \/ ExecuteWaveWait

SpecPools == InitPools /\ [][NextPools]_vars

\* the pools run their jobs and every job ends
LiveSpecPools == SpecPools /\ WF_vars(NextPools)

\* C39: the wait of the execute wave returns once every
\* backupCollectionExecute job has completed; the ids of the prepare wave,
\* which are in the same list and were waited for before, do not block it,
\* so executeCreateBackup returns when every submitted job completes
C39_ExecuteWaitReturns ==
    /\ [](pools.returned => \A k \in PoolCollections : pools.job[k].pc = "done")
    /\ []((\A k \in PoolCollections : pools.job[k].pc = "done") =>
             ExecuteWaveDone(pools))
    /\ [](\A i \in PoolCollections :
             (Len(pools.jobIds) > NumPoolCollections) =>
                 pools.jobIds[i] = i /\ i \in pools.completed)
    /\ <>pools.returned

C39_Witness ==
    /\ pools.returned
    /\ Len(pools.jobIds) = 2 * NumPoolCollections
    /\ \A i \in DOMAIN pools.jobIds : pools.jobIds[i] \in pools.completed

\* the copySegment jobs running in the engine
CopyJobsRunning == UNION {pools.running[p] : p \in DOMAIN pools.running}

\* C26: at every instant at most backup.parallelism per-collection jobs and
\* at most backup.copydata.parallelism copySegment jobs are running in the
\* engine
C26_BoundedParallelism ==
    /\ Cardinality(CollectionJobsRunning) <= BackupCollectionParallelism
    /\ Cardinality(CopyJobsRunning) <= BackupCopyDataParallelism

----------------------------------------------------------------------------
(* GetBackup and DeleteBackup (backup_context.go).  A backup id is the id  *)
(* of the call that registered it, 0 the empty id; "" is the empty name.   *)

\* MetaManager.GetFullMeta: the materialized tree of a registered backup,
\* nil (FALSE) for an id no backup is registered under
GetFullMeta(m, id) == id \in DOMAIN m.backups

\* readBackup, lines 448-500: the backup is read when backup_meta.json
\* exists and the four level files can be read; otherwise nil
readBackup(objects, name, readFails) ==
    /\ ~readFails
    /\ Exist(objects, ManifestPath(BackupRoot, name, ManifestFiles[1]))
    /\ \A i \in 1..4 : ManifestPath(BackupRoot, name, ManifestFiles[i]) \in objects

ManagementResponse(code, msg, found) == [code |-> code, msg |-> msg, found |-> found]

\* GetBackup, lines 237-281
BackupContext_GetBackup(m, objects, id, name, readFails) ==
    IF id = 0 /\ name = ""
    THEN ManagementResponse(Parameter_Error,
                            "empty backup name and backup id, please set a backup name or id", FALSE)
    ELSE IF id # 0
    THEN ManagementResponse(Success, "success", GetFullMeta(m, id))
    ELSE IF GetBackupByName(m, name) # {}
    THEN ManagementResponse(Success, "success", TRUE)
    ELSE IF readBackup(objects, name, readFails)
    THEN ManagementResponse(Success, "success", TRUE)
    ELSE ManagementResponse(Request_Object_Not_Found, "not found", FALSE)

\* ObjectStore.RemoveWithPrefix
RemoveWithPrefix(objects, path) == {o \in objects : ~IsPrefix(path, o)}

\* a DeleteBackup that removes the prefix only when the backup resolved
DeleteBackup_RemoveIfFound(m, objects, name, readFails, removeFails) ==
    LET getResp == BackupContext_GetBackup(m, objects, 0, name, readFails)
    IN IF name = ""
       THEN [code |-> Parameter_Error, msg |-> "empty backup name", objects |-> objects,
             removes |-> 0]
       ELSE IF getResp.code = Request_Object_Not_Found
       THEN [code |-> Request_Object_Not_Found, msg |-> getResp.msg, objects |-> objects,
             removes |-> 0]
       ELSE [code |-> IF removeFails THEN Fail ELSE Success,
             msg |-> IF removeFails THEN getResp.msg ELSE "success",
             objects |-> IF removeFails THEN objects
                         ELSE RemoveWithPrefix(objects, BackupDirPath(BackupRoot, name)),
             removes |-> 1]

\* DeleteBackup, lines 383-446
DeleteBackup(m, objects, name, readFails, removeFails) ==
    IF name = ""
    THEN [code |-> Parameter_Error, msg |-> "empty backup name", objects |-> objects,
          removes |-> 0]
    ELSE LET getResp == BackupContext_GetBackup(m, objects, 0, name, readFails)
             removed == IF removeFails THEN objects
                        ELSE RemoveWithPrefix(objects, BackupDirPath(BackupRoot, name))
         IN IF getResp.code = Request_Object_Not_Found
            THEN [code |-> Request_Object_Not_Found, msg |-> getResp.msg,
                  objects |-> removed, removes |-> 1]
            ELSE IF getResp.code # Success
            THEN [code |-> Fail, msg |-> getResp.msg, objects |-> removed, removes |-> 1]
            ELSE IF ~getResp.found
            THEN [code |-> Request_Object_Not_Found, msg |-> "backup does not exist",
                  objects |-> removed, removes |-> 1]
            ELSE IF removeFails
            THEN [code |-> Fail, msg |-> getResp.msg, objects |-> removed, removes |-> 1]
            ELSE [code |-> Success, msg |-> "success", objects |-> removed, removes |-> 1]

----------------------------------------------------------------------------
(* Specification SpecManage: GetBackup and DeleteBackup calls on an engine *)
(* that has rejected NumCalls - 1 requests for their name and serves one   *)
(* more CreateBackup.  The backup bucket is empty or holds the manifest of *)
(* backup "n2", written by another engine.                                 *)

ManagedNames == {"", "n1", "n2"}

ManagedIds == 0..(NumCalls + 1)

RejectedRequest == Request("bad-name", FALSE, FALSE, FALSE, <<>>, NoDbCollections)

InitManage ==
    /\ pc = [c \in Calls |-> IF c < NumCalls THEN "done" ELSE "idle"]
    /\ req = [c \in Calls |-> IF c < NumCalls THEN RejectedRequest ELSE NoRequest]
    /\ resp = [c \in Calls |->
                 IF c < NumCalls THEN Response(Parameter_Error, "illegal backup name", NoData)
                 ELSE NoResponse]
    /\ mu = 0
    /\ meta = newMetaManager
    /\ store \in {{}, WrittenManifest("n2", {})}
    /\ exec = IdleExec
    /\ copyJobs = {}
    /\ faults = 0
    /\ ctxDone = {}
    /\ mgmt = NoManagement
    /\ pools = NoPools
    /\ env = NoEnv
    /\ paths = NoPaths
    /\ pin = IdleInput
    /\ pout = IdleOutcome

\* a GetBackup call: the read of the manifest may fail when it is reached
GetBackupCall ==
    /\ \E id \in ManagedIds, name \in ManagedNames, readFails \in FaultChoice :
        LET r == BackupContext_GetBackup(meta, store, id, name, readFails)
        IN /\ readFails => (id = 0 /\ name # "" /\ GetBackupByName(meta, name) = {})
           /\ Spend(IF readFails THEN 1 ELSE 0)
           /\ mgmt' = [NoManagement EXCEPT !.op = "GetBackup", !.id = id, !.name = name,
                                           !.code = r.code, !.msg = r.msg, !.found = r.found,
                                           !.deleted = mgmt.deleted]
    /\ UNCHANGED <<pc, req, resp, mu, meta, store, exec, copyJobs, pin, pout, ctxDone, paths, env, pools>>

\* the name's backup was created by this engine and has finished in Success
CreatedSuccessfully(name) ==
    \E id \in GetBackupByName(meta, name) :
        pc[id] = "done" /\ GetBackup(meta, id).stateCode = BACKUP_SUCCESS

\* a DeleteBackup call
DeleteBackupCall ==
    /\ \E name \in ManagedNames, removeFails \in FaultChoice :
        LET r == DeleteBackup(meta, store, name, FALSE, removeFails)
        IN /\ removeFails => name # ""
           /\ Spend(IF removeFails THEN 1 ELSE 0)
           /\ store' = r.objects
           /\ mgmt' = [NoManagement EXCEPT !.op = "DeleteBackup", !.name = name,
                                           !.code = r.code, !.msg = r.msg,
                                           !.removes = r.removes,
                                           !.removeFailed = removeFails,
                                           !.deleted =
                                               IF r.code = Success /\ CreatedSuccessfully(name)
                                               THEN mgmt.deleted \cup {name}
                                               ELSE mgmt.deleted]
    /\ UNCHANGED <<pc, req, resp, mu, meta, exec, copyJobs, pin, pout, ctxDone, paths, env, pools>>

NextManage ==
    \/ Next
    \/ GetBackupCall
    \/ DeleteBackupCall

SpecManage == InitManage /\ [][NextManage]_vars

----------------------------------------------------------------------------
(* ListBackups, lines 306-381.  The request's collection name "" is the    *)
(* absent filter.                                                          *)

\* the order in which ListWithPrefix returns the children of the backup root
ListingOrder == <<"n1", "n2", "n3", "tmp">>

\* lines 328, 341: the names of the immediate children of {backupRoot}/
BackupChildren(objects) ==
    LET Present(name) == Exist(objects, BackupDirPath(BackupRoot, name))
    IN SelectSeq(ListingOrder, Present)

\* the collections the manifest of a backup in the bucket lists: n2 was
\* taken of collection c1 of database default and collection c1 of database
\* db2, n3 of collection c2
ManifestCollections(name) ==
    CASE name = "n2" -> <<Coll("default", "c1"), Coll("db2", "c1")>>
      [] name = "n3" -> <<Coll("default", "c2")>>
      [] OTHER -> <<>>

\* GetCollectionBackups() of the BackupInfo GetBackup answers by name: the
\* names of its collections, one per collection
CollectionBackupNames(m, objects, name) ==
    IF GetBackupByName(m, name) # {}
    THEN LET id == CHOOSE i \in GetBackupByName(m, name) : TRUE
             keys == {k \in DOMAIN m.collections : k[1] = id}
             order == CHOOSE o \in SeqsUpTo(keys, Cardinality(keys)) :
                          Len(o) = Cardinality(keys) /\ Range(o) = keys
         IN [i \in 1..Len(order) |-> m.collections[order[i]].collectionName]
    ELSE [i \in 1..Len(ManifestCollections(name)) |-> ManifestCollections(name)[i].collectionName]

\* lines 339-369: the loop over the listed children
RECURSIVE ListWanted(_, _, _, _)
ListWanted(m, objects, children, collectionName) ==
    IF children = <<>> THEN <<>>
    ELSE LET name == Head(children)
             backupResp == BackupContext_GetBackup(m, objects, 0, name, FALSE)
             names == CollectionBackupNames(m, objects, name)
             Matches(n) == n = collectionName
             wanted == IF backupResp.code # Success \/ ~backupResp.found THEN <<>>
                       ELSE IF collectionName # ""
                       THEN [i \in 1..Len(SelectSeq(names, Matches)) |-> name]
                       ELSE <<name>>
         IN wanted \o ListWanted(m, objects, Tail(children), collectionName)

ListBackups(m, objects, collectionName, listFails) ==
    IF listFails
    THEN [code |-> Fail, msg |-> "fail to list", data |-> <<>>]
    ELSE [code |-> Success, msg |-> "success",
          data |-> ListWanted(m, objects, BackupChildren(objects), collectionName)]

----------------------------------------------------------------------------
(* Specification SpecList: ListBackups calls on an engine that serves one  *)
(* CreateBackup, over a bucket that holds backups written by other engines *)
(* and a child of the backup root that is no backup.                       *)

CollectionNameFilters == {"", "c1", "c2"}

ListedBuckets ==
    {{},
     WrittenManifest("n2", {}),
     WrittenManifest("n2", {}) \cup WrittenManifest("n3", {})
         \cup {<<BackupRoot, "tmp", "upload.part">>}}

InitList ==
    /\ pc = [c \in Calls |-> IF c < NumCalls THEN "done" ELSE "idle"]
    /\ req = [c \in Calls |-> IF c < NumCalls THEN RejectedRequest ELSE NoRequest]
    /\ resp = [c \in Calls |->
                 IF c < NumCalls THEN Response(Parameter_Error, "illegal backup name", NoData)
                 ELSE NoResponse]
    /\ mu = 0
    /\ meta = newMetaManager
    /\ store \in ListedBuckets
    /\ exec = IdleExec
    /\ copyJobs = {}
    /\ faults = 0
    /\ ctxDone = {}
    /\ mgmt = NoManagement
    /\ pools = NoPools
    /\ env = NoEnv
    /\ paths = NoPaths
    /\ pin = IdleInput
    /\ pout = IdleOutcome

ListBackupsCall ==
    /\ \E collectionName \in CollectionNameFilters, listFails \in FaultChoice :
        LET r == ListBackups(meta, store, collectionName, listFails)
        IN /\ Spend(IF listFails THEN 1 ELSE 0)
           /\ mgmt' = [NoManagement EXCEPT !.op = "ListBackups", !.name = collectionName,
                                           !.code = r.code, !.msg = r.msg, !.data = r.data]
    /\ UNCHANGED <<pc, req, resp, mu, meta, store, exec, copyJobs, pin, pout, ctxDone, paths, env, pools>>

NextList ==
    \/ Next
    \/ ListBackupsCall

SpecList == InitList /\ [][NextList]_vars

\* the backup of the name resolves through GetBackup
Resolves(name) ==
    GetBackupByName(meta, name) # {} \/ readBackup(store, name, FALSE)

\* the resolved backup of the name has a collection of the given name
HasCollectionNamed(name, collectionName) ==
    collectionName \in Range(CollectionBackupNames(meta, store, name))

\* C23: a ListBackups whose listing succeeds answers Success with exactly
\* the children of the backup root that resolve and, under a collection
\* name filter, hold a collection of that name, each of them once; children
\* that do not resolve are left out
C23_ListBackupsExact ==
    [][ListBackupsCall =>
          LET q == mgmt'
              wanted == {name \in Range(BackupChildren(store)) :
                            /\ Resolves(name)
                            /\ q.name # "" => HasCollectionNamed(name, q.name)}
          IN faults' = faults =>
                /\ q.code = Success
                /\ Range(q.data) = wanted
                /\ Len(q.data) = Cardinality(wanted)]_vars

----------------------------------------------------------------------------
(* Specification SpecPaths: copySegment on one segment, binlog by binlog,  *)
(* as a computation on path strings, over root paths, backup names and     *)
(* ids whose digits occur in one another.                                  *)

\* params.MinioCfg.RootPath: empty, a directory, and the binlog directory of
\* backup m1 itself
RootPaths ==
    {<<>>, <<"files">>, <<"backup", "/", "m", "1", "/", "binlogs">>}

BackupNameStrings == {<<"m">>, <<"m", "1">>}

PathCollectionIds == {1, 21}

PathPartitionIds == {1, 10}

PathSegmentIds == {2, 7}

\* the binlogs of the segment in the order copySegment visits them: insert
\* logs, then delta logs; the second list is a segment whose field listing
\* returned no insert log
BinlogLists ==
    {<<[kind |-> "insert_log", fieldId |-> 100, file |-> "x"],
       [kind |-> "insert_log", fieldId |-> 100, file |-> "y"],
       [kind |-> "delta_log", fieldId |-> 101, file |-> "x"]>>,
     <<[kind |-> "delta_log", fieldId |-> 101, file |-> "x"]>>}

InitPaths ==
    /\ pc = [c \in Calls |-> "idle"]
    /\ req = [c \in Calls |-> NoRequest]
    /\ resp = [c \in Calls |-> NoResponse]
    /\ mu = 0
    /\ meta = newMetaManager
    /\ store = {}
    /\ exec = IdleExec
    /\ copyJobs = {}
    /\ faults = 0
    /\ ctxDone = {}
    /\ mgmt = NoManagement
    /\ pools = NoPools
    /\ env = NoEnv
    /\ pin = IdleInput
    /\ pout = IdleOutcome
    /\ paths \in {[NoPaths EXCEPT !.rootPath = r, !.backupRootPath = <<"backup">>,
                                  !.name = n, !.collId = c, !.partId = p, !.segId = s,
                                  !.binlogs = l] :
                     r \in RootPaths, n \in BackupNameStrings, c \in PathCollectionIds,
                     p \in PathPartitionIds, s \in PathSegmentIds, l \in BinlogLists}

NextBinlogKey ==
    BinlogKey(paths.rootPath, paths.binlogs[paths.next], paths.collId, paths.partId,
              paths.segId)

\* one iteration of the loops of lines 783-828 and 830-872 up to the copy:
\* line 787 sets the group id when the binlog is an insert log
CopyBinlogPath ==
    /\ paths.err = ""
    /\ paths.next <= Len(paths.binlogs)
    /\ LET binlog == paths.binlogs[paths.next]
           groupId == IF binlog.kind = "insert_log" THEN paths.segId ELSE paths.groupId
           dstPath == BackupBinlogDirPathString(paths.backupRootPath, paths.name)
           targetPath == TargetPathString(NextBinlogKey, paths.rootPath, dstPath,
                                          paths.partId, groupId)
       IN paths' = IF targetPath = NextBinlogKey
                   THEN [paths EXCEPT !.groupId = groupId,
                                      !.err = "copy src path and dst path can not be the same"]
                   ELSE [paths EXCEPT !.groupId = groupId, !.next = @ + 1,
                                      !.copies = Append(@, [src |-> NextBinlogKey,
                                                            dst |-> targetPath])]
    /\ UNCHANGED <<pc, req, resp, mu, meta, store, exec, copyJobs, faults, pin, pout, ctxDone,
                   mgmt, env, pools>>

NextPaths == CopyBinlogPath

SpecPaths == InitPaths /\ [][NextPaths]_vars

\* C21: the destinations copySegment computes for the binlogs of a segment
\* are pairwise distinct, none equals its source, and a binlog whose
\* destination comes out equal to its source ends copySegment with an error
\* before a copy of it is issued
C21_PathInjectivity ==
    /\ \A i, j \in DOMAIN paths.copies :
          i # j => paths.copies[i].dst # paths.copies[j].dst
    /\ \A i \in DOMAIN paths.copies : paths.copies[i].dst # paths.copies[i].src
    /\ Len(paths.copies) = paths.next - 1
    /\ paths.err # "" =>
          \A i \in DOMAIN paths.copies : paths.copies[i].src # NextBinlogKey

C21_Witness ==
    /\ paths.next > Len(paths.binlogs)
    /\ Len(paths.copies) = 3
    /\ paths.name = <<"m", "1">>
    /\ paths.partId = 1
    /\ paths.collId = 21

----------------------------------------------------------------------------
(* GetRestore, lines 502-546.  The progress is computed in float32:        *)
(* int32(float32(restoredSize) * 100 / float32(toRestoreSize)).  The sizes *)
(* of the model stay below 2^31 / 100, so every intermediate value is an   *)
(* integer or a quotient of two integers.                                  *)

RECURSIVE Pow2(_)
Pow2(n) == IF n = 0 THEN 1 ELSE 2 * Pow2(n - 1)

RECURSIVE Log2Floor(_)
Log2Floor(n) == IF n < 2 THEN 0 ELSE 1 + Log2Floor(n \div 2)

\* the float32 nearest to the natural number n (24-bit significand, ties to
\* even)
Float32(n) ==
    IF n < Pow2(24) THEN n
    ELSE LET u == Pow2(Log2Floor(n) - 23)
             q == n \div u
             rm == n % u
         IN IF 2 * rm > u \/ (2 * rm = u /\ q % 2 = 1) THEN (q + 1) * u ELSE q * u

\* int32 of the float32 quotient a / t of two float32 integers, 0 < t:
\* the quotient rounds up to the next integer k when it is within half a
\* unit in the last place of k
Float32QuotientToInt32(a, t) ==
    LET q == a \div t
        k == q + 1
        e == IF q = 0 THEN -1 ELSE Log2Floor(q)
    IN IF k * t - a <= t \div Pow2(24 - e) THEN k ELSE q

\* lines 530-534
RestoreProgress(restoredSize, toRestoreSize) ==
    LET progress == Float32QuotientToInt32(Float32(Float32(restoredSize) * 100),
                                           Float32(toRestoreSize))
    IN IF progress = 0 THEN 1 ELSE progress

\* MetaManager.GetRestoreTask: nil (no entry) for an id no task has
GetRestoreTask(m, id) == IF id \in DOMAIN m.restoreTasks THEN m.restoreTasks[id] ELSE <<>>

\* GetRestore, lines 523-545: line 535 stores the progress into the task
\* before the task is compared with nil
GetRestore(m, id) ==
    IF id = 0
    THEN [code |-> Fail, msg |-> "empty restore id", progress |-> 0, panics |-> FALSE,
          meta |-> m]
    ELSE IF GetRestoreTask(m, id) = <<>>
    THEN [code |-> "", msg |-> "", progress |-> 0, panics |-> TRUE, meta |-> m]
    ELSE LET task == GetRestoreTask(m, id)
             progress == RestoreProgress(task.restoredSize, task.toRestoreSize)
         IN [code |-> Success, msg |-> "success", progress |-> progress, panics |-> FALSE,
             meta |-> [m EXCEPT !.restoreTasks[id].progress = progress]]

----------------------------------------------------------------------------
(* Specification SpecRestore: GetRestore calls on an engine with one       *)
(* restore task whose restoredSize grows as segments are restored.         *)

RestoreSizes == {1, 3, 7, 100, 299999, 16777220}

RestoredSizes == {1, 2, 3, 50, 99, 100, 296999, 299999, 16777219, 16777220}

RestoreIds == 0..2

InitRestore ==
    /\ pc = [c \in Calls |-> "idle"]
    /\ req = [c \in Calls |-> NoRequest]
    /\ resp = [c \in Calls |-> NoResponse]
    /\ mu = 0
    /\ meta \in {AddRestoreTask(newMetaManager,
                                 [id |-> 1, toRestoreSize |-> t, restoredSize |-> 0,
                                  progress |-> 0]) : t \in RestoreSizes}
    /\ store = {}
    /\ exec = IdleExec
    /\ copyJobs = {}
    /\ faults = 0
    /\ ctxDone = {}
    /\ mgmt = NoManagement
    /\ pools = NoPools
    /\ env = NoEnv
    /\ paths = NoPaths
    /\ pin = IdleInput
    /\ pout = IdleOutcome

\* the restore of one more segment has succeeded
RestoreSegment ==
    /\ \E id \in DOMAIN meta.restoreTasks, size \in RestoredSizes :
        /\ meta.restoreTasks[id].restoredSize < size
        /\ size <= meta.restoreTasks[id].toRestoreSize
        /\ meta' = [meta EXCEPT !.restoreTasks[id].restoredSize = size]
    /\ UNCHANGED <<pc, req, resp, mu, store, exec, copyJobs, faults, pin, pout, ctxDone, mgmt, paths, env, pools>>

GetRestoreCall ==
    /\ \E id \in RestoreIds :
        LET r == GetRestore(meta, id)
        IN /\ meta' = r.meta
           /\ mgmt' = [NoManagement EXCEPT !.op = "GetRestore", !.id = id, !.code = r.code,
                                           !.msg = r.msg, !.progress = r.progress,
                                           !.panics = r.panics]
    /\ UNCHANGED <<pc, req, resp, mu, store, exec, copyJobs, faults, pin, pout, ctxDone, paths, env, pools>>

NextRestore ==
    \/ RestoreSegment
    \/ GetRestoreCall

SpecRestore == InitRestore /\ [][NextRestore]_vars

\* C17: GetRestore with an id no restore task is registered under answers a
\* non-zero code and a message without panicking; with the empty id it
\* answers Fail
C17_UnknownRestoreId ==
    mgmt.op = "GetRestore" =>
        /\ mgmt.id = 0 => mgmt.code = Fail
        /\ (mgmt.id # 0 /\ mgmt.id \notin DOMAIN meta.restoreTasks) =>
              /\ ~mgmt.panics
              /\ mgmt.code \notin {"", Success}
              /\ mgmt.msg # ""

\* C18: for a task with 0 < restoredSize <= toRestoreSize the progress
\* GetRestore reports is max(1, floor(100 * restoredSize / toRestoreSize)),
\* lies in 1..100 and is not below the progress reported before
C18_ProgressFormula ==
    [][GetRestoreCall =>
          LET q == mgmt'
          IN q.id \in DOMAIN meta.restoreTasks =>
                LET task == meta.restoreTasks[q.id]
                IN (0 < task.restoredSize /\ task.restoredSize <= task.toRestoreSize) =>
                      /\ q.progress \in 1..100
                      /\ q.progress = Max({1, (100 * task.restoredSize) \div task.toRestoreSize})
                      /\ q.progress >= task.progress]_vars

----------------------------------------------------------------------------
(* Properties of specification Spec *)

\* the positions of a call between b.mu.Lock() and the return
Executing == {"parse", "prepare", "execute", "copy", "success", "write"}

StoredState(id) == GetBackup(meta, id).stateCode

\* the segments MetaManager holds below backup id
BackupSegments(id) ==
    UNION {GetSegments(meta, p) :
              p \in UNION {GetPartitions(meta, coll) : coll \in GetCollections(meta, id)}}

ManifestComplete(name) ==
    \A i \in 1..Len(ManifestFiles) : ManifestPath(BackupRoot, name, ManifestFiles[i]) \in store

\* C1: whenever the stored state of a backup is Success, all six manifest
\* files of the backup are in the backup bucket
C1_SuccessImpliesManifest ==
    \A id \in DOMAIN meta.backups :
        StoredState(id) = BACKUP_SUCCESS => ManifestComplete(GetBackup(meta, id).name)

\* every binlog of segment s is at its destination in the backup bucket
SegmentCopied(id, s) ==
    LET segment == GetSegment(meta, s)
        dstPath == BackupBinlogDirPath(BackupRoot, GetBackup(meta, id).name)
        logs == AllBinlogs(segment.binlogs) \o AllBinlogs(segment.deltalogs)
    IN \A k \in 1..Len(logs) :
          TargetPath(logs[k].logPath, dstPath, segment.partitionId, segment.segmentId) \in store

\* C2: when a backup with metaOnly=false reaches Success, every segment of it
\* has backuped=true and every listed binlog is copied to its destination
C2_SuccessImpliesCopied ==
    \A c \in Calls :
        (pc[c] = "write" /\ StoredState(c) = BACKUP_SUCCESS /\ ~req[c].metaOnly) =>
            \A s \in BackupSegments(c) :
                GetSegment(meta, s).backuped /\ SegmentCopied(c, s)

\* C3: at most one invocation of executeCreateBackup is past its lock
\* acquisition, it is the holder of the mutex, and the mutex is free whenever
\* no invocation is executing (every return releases it)
C3_MutualExclusion ==
    /\ Cardinality({c \in Calls : pc[c] \in Executing}) <= 1
    /\ \A c \in Calls : pc[c] \in Executing <=> mu = c
    /\ (\A c \in Calls : pc[c] \notin Executing) => mu = 0

C3_Witness ==
    \E c, d \in Calls :
        /\ c # d
        /\ pc[c] = "done" /\ c \in DOMAIN meta.backups /\ StoredState(c) = BACKUP_FAIL
        /\ pc[d] = "copy" /\ mu = d

\* C4: at most one backup task per name is registered in MetaManager
C4_OneTaskPerName ==
    \A a, b \in DOMAIN meta.backups :
        GetBackup(meta, a).name = GetBackup(meta, b).name => a = b

\* C5: a CreateBackup whose existence check finds the path of the name in the
\* backup bucket answers Parameter_Error, registers no task, does not enter
\* executeCreateBackup and leaves the object store as it is
C5_DuplicateNameRejected ==
    [][\A c \in Calls :
          (/\ pc[c] = "idle" /\ pc'[c] # "idle"
           /\ Exist(store, BackupDirPath(BackupRoot, req'[c].name))
           /\ resp'[c].msg # "fail to check whether exist backup with name")
          => /\ resp'[c].code = Parameter_Error
             /\ pc'[c] = "done"
             /\ meta' = meta /\ store' = store /\ copyJobs' = copyJobs /\ mu' = mu]_vars

C5_Witness ==
    \E c \in Calls :
        /\ pc[c] = "done"
        /\ resp[c].code = Parameter_Error
        /\ resp[c].msg = "backup already exist with the name"
        /\ c \notin DOMAIN meta.backups
        /\ Exist(store, BackupDirPath(BackupRoot, req[c].name))

\* C6: when executeCreateBackup has returned an error to a synchronous
\* CreateBackup, the stored backup has state Fail and the error's text as
\* errorMessage
C6_ErrorImpliesFail ==
    \A c \in Calls :
        (pc[c] = "done" /\ c \in DOMAIN meta.backups /\ ~req[c].async /\ resp[c].code = Fail) =>
            /\ StoredState(c) = BACKUP_FAIL
            /\ GetBackup(meta, c).errorMessage = resp[c].msg

SumOver(S, f(_)) ==
    LET RECURSIVE Sum(_)
        Sum(T) == IF T = {} THEN 0 ELSE LET x == CHOOSE y \in T : TRUE IN f(x) + Sum(T \ {x})
    IN Sum(S)

SegmentSize(s) == GetSegment(meta, s).size

\* C7: for a backup in state Success with metaOnly=false the recorded sizes
\* add up: segment = its binlogs, partition = its segments, collection = its
\* partitions, backup = its collections
C7_SizeConservation ==
    \A c \in Calls :
        (pc[c] = "done" /\ c \in DOMAIN meta.backups /\ StoredState(c) = BACKUP_SUCCESS
            /\ ~req[c].metaOnly) =>
            LET colls == GetCollections(meta, c)
                PartSize(coll) ==
                    LET P(p) == meta.partitions[<<coll, p>>].size
                    IN SumOver(GetPartitions(meta, coll), P)
                CollSize(coll) == meta.collections[<<c, coll>>].size
            IN /\ \A s \in BackupSegments(c) :
                      SegmentSize(s) = BinlogsSize(GetSegment(meta, s).binlogs)
                                         + BinlogsSize(GetSegment(meta, s).deltalogs)
               /\ \A coll \in colls : \A p \in GetPartitions(meta, coll) :
                      meta.partitions[<<coll, p>>].size = SumOver(GetSegments(meta, p), SegmentSize)
               /\ \A coll \in colls : CollSize(coll) = PartSize(coll)
               /\ GetBackup(meta, c).size = SumOver(colls, CollSize)

\* the request names a collection the cluster does not have
NamesUnknownCollection(r) ==
    \/ \E i \in 1..Len(r.collectionNames) :
          ~HasCollection(QualifiedName(r.collectionNames[i]).db,
                         QualifiedName(r.collectionNames[i]).collectionName)
    \/ /\ r.dbCollections.str # ""
       /\ \E db \in DOMAIN r.dbCollections.map :
            \E i \in 1..Len(r.dbCollections.map[db]) :
                ~HasCollection(db, r.dbCollections.map[db][i])

\* C10: a request naming a collection the cluster does not have, through
\* collectionNames or through a non-empty list of dbCollections, is answered
\* with code Parameter_Error (no environment failure involved)
C10_UnknownCollectionParameterError ==
    \A c \in Calls :
        (pc[c] = "done" /\ c \in DOMAIN meta.backups /\ faults = 0
            /\ NamesUnknownCollection(req[c])) =>
            resp[c].code = Parameter_Error

NoEnvironmentFailure == faults = Cardinality(ctxDone)

\* C19: an asynchronous CreateBackup answers Success with the registered
\* task in state Initial before the execution has run, a synchronous one
\* answers only after executeCreateBackup has returned, and an asynchronous
\* backup is not affected by its caller cancelling the context after the
\* response: without environment failure it ends in Success with its
\* manifest written
C19_AsyncDetached ==
    \A c \in Calls :
        /\ (req[c].async /\ c \in DOMAIN meta.backups) =>
              resp[c].code = Success /\ resp[c].state = BACKUP_INITIAL
        /\ (~req[c].async /\ pc[c] # "done") => resp[c] = NoResponse
        /\ (req[c].async /\ c \in DOMAIN meta.backups /\ pc[c] = "done"
              /\ NoEnvironmentFailure /\ ~NamesUnknownCollection(req[c])) =>
              /\ StoredState(c) = BACKUP_SUCCESS
              /\ ManifestComplete(req[c].name)

\* C20: a synchronous CreateBackup whose caller cancelled the context while
\* the call was in progress returns a failure response
C20_CancelFailsSyncCall ==
    \A c \in Calls :
        (~req[c].async /\ pc[c] = "done" /\ c \in ctxDone) => resp[c].code # Success

\* C14: GetBackup resolves by id, then by name in MetaManager, then by the
\* manifest in the object store: a request resolving at one of the three
\* answers Success with the backup, in particular one whose id is unknown
\* and whose name is registered, and a request resolving nowhere does not
\* answer Success
C14_GetBackupResolution ==
    [][GetBackupCall =>
          LET q == mgmt'
              byId == q.id # 0 /\ GetFullMeta(meta, q.id)
              byName == q.name # "" /\ GetBackupByName(meta, q.name) # {}
              byStore == q.name # "" /\ readBackup(store, q.name, FALSE)
          IN /\ byId => (q.code = Success /\ q.found)
             /\ (~byId /\ byName) => (q.code = Success /\ q.found)
             /\ (~byId /\ ~byName /\ byStore /\ faults' = faults) =>
                   (q.code = Success /\ q.found)
             /\ (~byId /\ ~byName /\ ~byStore) => q.code # Success]_vars

\* C15: once DeleteBackup({name}) has answered Success for a backup this
\* engine created successfully, GetBackup({name}) answers
\* Request_Object_Not_Found
C15_DeletedIsNotFound ==
    (mgmt.op = "GetBackup" /\ mgmt.id = 0 /\ mgmt.name \in mgmt.deleted) =>
        mgmt.code = Request_Object_Not_Found

\* C16: a DeleteBackup with a name invokes RemoveWithPrefix on the backup's
\* directory exactly once, resolved or not, and answers
\* Request_Object_Not_Found when the backup did not resolve, else Fail when
\* the removal returned an error, else Success; with an empty name it
\* answers Parameter_Error and removes nothing
C16_DeleteAlwaysRemoves ==
    [][DeleteBackupCall =>
          LET q == mgmt'
              resolved == \/ GetBackupByName(meta, q.name) # {}
                          \/ readBackup(store, q.name, FALSE)
          IN IF q.name = ""
             THEN q.code = Parameter_Error /\ q.removes = 0 /\ store' = store
             ELSE /\ q.removes = 1
                  /\ ~q.removeFailed =>
                        store' = RemoveWithPrefix(store, BackupDirPath(BackupRoot, q.name))
                  /\ q.code = IF ~resolved THEN Request_Object_Not_Found
                              ELSE IF q.removeFailed THEN Fail
                              ELSE Success]_vars

C16_Witness ==
    /\ mgmt.op = "DeleteBackup" /\ mgmt.name = "n2"
    /\ mgmt.code = Request_Object_Not_Found
    /\ mgmt.removes = 1
    /\ \E c \in Calls : pc[c] = "done" /\ c \in DOMAIN meta.backups

\* C24: a copySegment whose existence check reports the source of a binlog
\* missing returns an error, leaves the segment not backuped, and the
\* backup ends in state Fail
C24_MissingBinlogFails ==
    \A j \in env.missing :
        /\ (pc[j.owner] = "copy" /\ mu = j.owner) =>
              /\ ~GetSegment(meta, j.seg).backuped
              /\ \A i \in DOMAIN exec.results :
                    exec.results[i].seg = j.seg => exec.results[i].err # ""
        /\ pc[j.owner] = "done" =>
              /\ StoredState(j.owner) = BACKUP_FAIL
              /\ ~req[j.owner].async => resp[j.owner].code = Fail

----------------------------------------------------------------------------
(* C27: when executeCreateBackup has returned and released the mutex, on   *)
(* success or on failure, no copySegment job submitted for that backup is  *)
(* still pending or running; in particular the jobs submitted before a     *)
(* later segment's fillSegmentBackupInfo failed have completed.            *)

C27_NoCopyJobAfterReturn ==
    \A c \in Calls :
        pc[c] = "done" => ~\E j \in copyJobs : j.owner = c

----------------------------------------------------------------------------
(* C28: backupCollectionExecute processes the segments of the collection   *)
(* (inventory filled, copy job submitted) in non-decreasing order of       *)
(* segment size, the size of a segment being the sum of the sizes of its   *)
(* insert and delta binlogs.  exec.order holds the segments still to be    *)
(* processed, in the order copySegments takes them.                        *)

\* the sum of the sizes of the insert and delta binlogs of a segment
BinlogSizeOf(segId) ==
    SumSeq([i \in 1..Len(SourceLogs("insert_log", segId)) |->
              SumSeq([j \in 1..Len(SourceLogs("insert_log", segId)[i].files) |->
                        SourceLogs("insert_log", segId)[i].files[j].size])])
    + SumSeq([i \in 1..Len(SourceLogs("delta_log", segId)) |->
              SumSeq([j \in 1..Len(SourceLogs("delta_log", segId)[i].files) |->
                        SourceLogs("delta_log", segId)[i].files[j].size])])

C28_AscendingSizeOrder ==
    \A c \in Calls :
        (pc[c] = "copy" /\ mu = c) =>
            \A i, j \in 1..Len(exec.order) :
                i < j => BinlogSizeOf(exec.order[i]) <= BinlogSizeOf(exec.order[j])

----------------------------------------------------------------------------
(* C30: when the listing of a segment's insert_log path returns no entry,  *)
(* fillSegmentBackupInfo returns an error, the segment's binlogs, delta    *)
(* logs and size in MetaManager stay as they were, no copy job is          *)
(* submitted for the segment, and the backup ends in state Fail.           *)

C30_EmptyInsertLogFails ==
    \A e \in env.emptyListing :
        /\ [owner |-> e.owner, seg |-> e.seg] \notin copyJobs
        /\ pc[e.owner] # "done" =>
              /\ exec.err # ""
              /\ GetSegment(meta, e.seg).binlogs = e.before.binlogs
              /\ GetSegment(meta, e.seg).deltalogs = e.before.deltalogs
              /\ GetSegment(meta, e.seg).size = e.before.size
        /\ pc[e.owner] = "done" =>
              /\ StoredState(e.owner) = BACKUP_FAIL
              /\ ~req[e.owner].async => resp[e.owner].code = Fail

C30_Witness ==
    \E e \in env.emptyListing :
        /\ pc[e.owner] = "done"
        /\ StoredState(e.owner) = BACKUP_FAIL
        /\ GetSegment(meta, e.seg).binlogs = <<>>
        /\ GetSegment(meta, e.seg).size = 0

----------------------------------------------------------------------------
(* C31: fillSegmentBackupInfo returns an error whenever a listing it       *)
(* performs fails (the insert_log path of the segment, a field             *)
(* sub-directory, the delta_log path), so a backup that reaches Success    *)
(* records no segment whose binlog lists omit objects because a listing    *)
(* failed.                                                                 *)

C31_ListingFailureFails ==
    \A e \in env.listFailed :
        /\ pc[e.owner] # "done" => exec.err # ""
        /\ StoredState(e.owner) # BACKUP_SUCCESS

----------------------------------------------------------------------------
(* C32: the binlog {milvusRoot}/{kind}/{collId}/{partId}/{segId}/{fieldId}/ *)
(* {file} is copied to {backupRoot}/{name}/binlogs/{kind}/{collId}/{partId} *)
(* /{groupId}/{segId}/{fieldId}/{file} with groupId = segId, the group id   *)
(* directly after the partition id, for every combination of root paths,    *)
(* backup name, collection id and partition id.                             *)

\* the destination the layout names for the i-th binlog of the segment
LayoutTarget(i) ==
    JoinPath(<<paths.backupRootPath, paths.name, <<"binlogs">>,
               <<paths.binlogs[i].kind>>, FormatIntString(paths.collId),
               FormatIntString(paths.partId), FormatIntString(paths.segId),
               FormatIntString(paths.segId), FormatIntString(paths.binlogs[i].fieldId),
               <<paths.binlogs[i].file>> >>)

C32_TargetPathLayout ==
    \A i \in DOMAIN paths.copies : paths.copies[i].dst = LayoutTarget(i)

----------------------------------------------------------------------------
(* C33: each binlog copy is attempted at most 5 times; when an attempt      *)
(* succeeds within the budget copySegment goes on (two failures followed    *)
(* by a success give a backuped segment and a Success backup), and when     *)
(* all 5 attempts fail copySegment returns the error and the segment is     *)
(* not marked backuped.                                                     *)

C33_CopyRetryBudget ==
    \A e \in env.copyTried :
        /\ e.tried <= 5
        /\ e.fails < 5 =>
              /\ e.tried = e.fails + 1
              /\ e.err = ""
              /\ e.backuped
              /\ (faults = 1 /\ pc[e.job.owner] = "done") =>
                    StoredState(e.job.owner) = BACKUP_SUCCESS
        /\ e.fails >= 5 =>
              /\ e.tried = 5
              /\ e.err # ""
              /\ e.backuped = e.before

C33_Witness ==
    \E e \in env.copyTried :
        /\ e.fails = 2 /\ e.tried = 3
        /\ pc[e.job.owner] = "done"
        /\ StoredState(e.job.owner) = BACKUP_SUCCESS
        /\ GetSegment(meta, e.job.seg).backuped

----------------------------------------------------------------------------
(* The GC pause of specification SpecGC *)

\* the calls of kind op issued for call c
GcCallsOf(op, c) == {i \in DOMAIN env.gc : env.gc[i].op = op /\ env.gc[i].call = c}

InsideExecute == {"parse", "prepare", "execute", "copy", "success", "write"}

\* C35: when the GC pause is enabled by the request or by the configuration,
\* the pause call is issued before the collections are parsed and the resume
\* call exactly once on every exit path of executeCreateBackup, before the
\* mutex is released; a failure of either call does not change the outcome
\* of the backup; when the pause is not enabled neither call is issued
C35_GcPauseResume ==
    \A c \in Calls :
        LET enabled == req[c].gcPauseEnable \/ env.cfgGcPause
            pauses == GcCallsOf("pause", c)
            resumes == GcCallsOf("resume", c)
        IN /\ ~enabled => (pauses = {} /\ resumes = {})
           /\ (enabled /\ pc[c] \in InsideExecute) =>
                 (Cardinality(pauses) = 1 /\ resumes = {})
           /\ (enabled /\ pc[c] = "done" /\ c \in DOMAIN meta.backups) =>
                 /\ Cardinality(pauses) = 1
                 /\ Cardinality(resumes) = 1
                 /\ \A i \in pauses, j \in resumes : i < j
                 /\ \A j \in resumes : env.gc[j].held
           /\ (pc[c] = "done" /\ c \in DOMAIN meta.backups /\ faults = 0
                  /\ ~NamesUnknownCollection(req[c])) =>
                 StoredState(c) = BACKUP_SUCCESS
           /\ (pc[c] = "done" /\ c \in DOMAIN meta.backups /\ NamesUnknownCollection(req[c])) =>
                 StoredState(c) = BACKUP_FAIL

C35_Witness ==
    /\ pc[1] = "done"
    /\ ~req[1].gcPauseEnable /\ env.cfgGcPause
    /\ StoredState(1) = BACKUP_SUCCESS
    /\ Len(env.gc) = 2
    /\ env.gc[1].op = "pause" /\ env.gc[1].failed
    /\ env.gc[2].op = "resume" /\ env.gc[2].failed /\ env.gc[2].held

----------------------------------------------------------------------------
(* C36: under any interleaving of its callers each lazily created shared   *)
(* resource of an engine is created at most once; for the copy pool: the   *)
(* concurrent per-collection jobs calling getCopyDataWorkerPool create one *)
(* pool, and every job submits to and waits on that pool.                  *)

C36_CopyPoolCreatedOnce ==
    /\ pools.created <= 1
    /\ \A k \in PoolCollections :
          pools.job[k].pc \in {"submit", "wait"} => pools.job[k].pool = 1

----------------------------------------------------------------------------
(* C37: the state of a backup task moves only from Initial to Success or   *)
(* from Initial to Fail; once it is Success or Fail it never changes       *)
(* again, also when the manifest write fails after the state was set to    *)
(* Success.                                                                *)

C37_StateMonotone ==
    [][\A id \in DOMAIN meta'.backups :
          /\ meta'.backups[id].stateCode \in {BACKUP_INITIAL, BACKUP_SUCCESS, BACKUP_FAIL}
          /\ id \notin DOMAIN meta.backups => meta'.backups[id].stateCode = BACKUP_INITIAL
          /\ (id \in DOMAIN meta.backups /\ meta.backups[id].stateCode # BACKUP_INITIAL) =>
                meta'.backups[id].stateCode = meta.backups[id].stateCode]_vars

\* the manifest write of a synchronous call failed after the state was set
C37_Witness ==
    \E c \in Calls :
        /\ pc[c] = "done" /\ c \in DOMAIN meta.backups
        /\ StoredState(c) = BACKUP_SUCCESS
        /\ ~req[c].async /\ resp[c].code = Fail

----------------------------------------------------------------------------
(* C38: for a synchronous CreateBackup that got past validation the        *)
(* response code is Success iff the backup state carried in the response   *)
(* data is Success, and Fail iff that state is Fail.                       *)

C38_CodeMatchesState ==
    \A c \in Calls :
        (pc[c] = "done" /\ ~req[c].async /\ c \in DOMAIN meta.backups) =>
            /\ resp[c].code = Success <=> resp[c].state = BACKUP_SUCCESS
            /\ resp[c].code = Fail <=> resp[c].state = BACKUP_FAIL

----------------------------------------------------------------------------
(* Specification SpecChannels: the channel checkpoint entries              *)
(* writeBackupInfoMeta builds for one collection, lines 710-722, as a      *)
(* computation on the virtual channel names.  A name is a string: a        *)
(* sequence of words and underscores.                                      *)

MaxNameSegments == 4

ChannelWords == {"by", "dml", "0"}

\* strings.Join(segments, "_")
RECURSIVE JoinUnderscore(_)
JoinUnderscore(segments) ==
    IF Len(segments) = 1 THEN segments[1]
    ELSE segments[1] \o <<"_">> \o JoinUnderscore(Tail(segments))

\* strings.Split(s, "_")
RECURSIVE SplitUnderscore(_)
SplitUnderscore(s) ==
    LET at == FirstIndex(s, <<"_">>)
    IN IF at = 0 THEN <<s>>
       ELSE <<SubSeq(s, 1, at - 1)>> \o SplitUnderscore(SubSeq(s, at + 1, Len(s)))

\* virtual channel names of two to MaxNameSegments segments
VirtualChannelNames ==
    {JoinUnderscore([i \in 1..Len(q) |-> <<q[i]>>]) :
        q \in {x \in SeqsUpTo(ChannelWords, MaxNameSegments) : Len(x) >= 2}}

\* the checkpoint lists of a collection: one channel, or two of the channels
\* of a cluster whose physical channel names hold two underscores
CheckpointLists ==
    {<<[vCh |-> v, position |-> "p0"]>> : v \in VirtualChannelNames}
    \cup {<<[vCh |-> <<"by", "_", "dml", "_", "0", "_", "0">>, position |-> "p0"],
            [vCh |-> <<"by", "_", "dml", "_", "0", "_", "dml">>, position |-> "p1"]>>,
          <<[vCh |-> <<"dml", "_", "0", "_", "0">>, position |-> "p0"],
            [vCh |-> <<"dml", "_", "0", "_", "by">>, position |-> "p1"]>>}

\* line 714: pCh := strings.Split(vCh, "_")[0] + "_" + strings.Split(vCh, "_")[1]
PhysicalChannelName(vCh) ==
    SplitUnderscore(vCh)[1] \o <<"_">> \o SplitUnderscore(vCh)[2]

InitChannels ==
    /\ pc = [c \in Calls |-> "idle"]
    /\ req = [c \in Calls |-> NoRequest]
    /\ resp = [c \in Calls |-> NoResponse]
    /\ mu = 0
    /\ meta = newMetaManager
    /\ store = {}
    /\ exec = IdleExec
    /\ copyJobs = {}
    /\ faults = 0
    /\ ctxDone = {}
    /\ mgmt = NoManagement
    /\ pools = NoPools
    /\ env = NoEnv
    /\ pin = IdleInput
    /\ pout = IdleOutcome
    /\ paths \in {[NoPaths EXCEPT !.cps = l] : l \in CheckpointLists}

\* lines 712-721: the entries of one collection, one per checkpoint, in the
\* order the map of checkpoints is ranged over
ChannelPositions(cps, order) ==
    [i \in 1..Len(cps) |->
        [name |-> PhysicalChannelName(cps[order[i]].vCh), position |-> cps[order[i]].position]]

WriteChannelCP ==
    /\ ~paths.written
    /\ \E order \in {o \in SeqsUpTo(DOMAIN paths.cps, Len(paths.cps)) :
                        Len(o) = Len(paths.cps) /\ Range(o) = DOMAIN paths.cps} :
          paths' = [paths EXCEPT !.cpFile = ChannelPositions(paths.cps, order),
                                 !.written = TRUE]
    /\ UNCHANGED <<pc, req, resp, mu, meta, store, exec, copyJobs, faults, pin, pout, ctxDone,
                   mgmt, env, pools>>

NextChannels == WriteChannelCP

SpecChannels == InitChannels /\ [][NextChannels]_vars

\* the virtual channel name without its last underscore-separated segment
WithoutLastSegment(vCh) ==
    JoinUnderscore(SubSeq(SplitUnderscore(vCh), 1, Len(SplitUnderscore(vCh)) - 1))

\* C40: the channel checkpoint file holds, for a collection, one
\* {physicalChannel, position} entry per recorded virtual channel, where
\* physicalChannel is the virtual channel name with its last
\* underscore-separated segment removed, for every virtual channel name
C40_PhysicalChannelNames ==
    paths.written =>
        /\ Len(paths.cpFile) = Len(paths.cps)
        /\ \A i \in DOMAIN paths.cps :
              \E k \in DOMAIN paths.cpFile :
                  /\ paths.cpFile[k].position = paths.cps[i].position
                  /\ paths.cpFile[k].name = WithoutLastSegment(paths.cps[i].vCh)

====
